---- MODULE Spec2Model ----
(***************************************************************************)
(* Speech-boundary detection and barge-in arbitration of the phone-call    *)
(* voice agent: AudioHandler.listen_and_detect (segment assembler),        *)
(* VoiceAgent._fast_decision_thread / on_speech_end (fast path and         *)
(* arbiter over the capacity-1 decision queue) and TTSHandler (playback    *)
(* queue and render loop).                                                 *)
(*                                                                         *)
(* A frame is a record [id, speech]: id numbers the frames read since the  *)
(* two assembler buffers were last both empty, speech is the value         *)
(* _process_chunk returned for it.  A byte string is the sequence of the   *)
(* frames it was joined from; its length in bytes is FrameBytes per frame. *)
(* Threads started per segment are indexed by the segment's number.        *)
(***************************************************************************)
EXTENDS Integers, Sequences, FiniteSets, TLC

\* ---- program constants (config.py, audio_handler.py, agent.py) ----
VAD_SAMPLING_RATE == 16000
VAD_FRAME_MS == 32
VAD_MIN_SPEECH_DURATION_MS == 250
VAD_MAX_SILENCE_DURATION_MS == 800
AUDIO_SAMPLING_RATE == 16000
SampleWidth == 2
RingMaxLen == 5
DecisionQueueMaxSize == 1
MinSnapshotBytes == 2048

AUDIO_CHUNK_SIZE == (VAD_SAMPLING_RATE * VAD_FRAME_MS) \div 1000
FrameBytes == AUDIO_CHUNK_SIZE * SampleWidth
min_speech_duration_samples == (VAD_MIN_SPEECH_DURATION_MS * AUDIO_SAMPLING_RATE) \div 1000

\* ---- bounds of the model ----
\* longest run of frames read while Idle before the next onset
MaxIdle == 6
\* most voiced frames fed into one segment
MaxVoiced == 2
\* most segments opened (threads are indexed 1..MaxSegs)
MaxSegs == 2

\* most items enqueued for playback, most audio chunks synthesized for one item
MaxItems == 3
MaxChunks == 3

\* most inbound messages put on q2_queue, most tool calls answered in one turn
MaxMsgs == 2
MaxCalls == 1

Segs == 1..MaxSegs
Items == 1..MaxItems

\* the threads that call _trigger_large_llm: start(), _main_loop, _queue_2_watcher
Callers == {"start", "main", "watcher"}

VARIABLES
    \* AudioHandler
    chunk, is_speaking, speech_buffer, ring_buffer, silence_chunks_after_speech,
    nseg,
    \* VoiceAgent: one _fast_decision_thread and one on_speech_end per segment
    fpc, fdecision, fpath, epc, edecision,
    decision_queue, user_speech_queue, interrupt_event,
    \* TTSHandler: queue.Queue (items and unfinished_tasks), render thread, a join waiter
    tts_queue, unfinished_tasks, is_processing_audio, tpc, item, chunks_left, stream,
    texit, nitems, wpc,
    \* history: per enqueued item whether it was dequeued and how often it was marked
    \* done; chunks of the current item written while the interrupt flag stayed set
    hist, late_writes,
    \* VoiceAgent: stop flag, LLMHandler._is_active, inbound and outbound message
    \* queues (with the number of inbound messages put so far), conversation history
    stop_event, llm_active, q2_queue, nmsgs, q1_queue, conversation_history,
    \* _trigger_large_llm as run by each calling thread: position, the stream event in
    \* hand, full_response_text non-empty, tool_call_in_progress, frames below the
    \* current one (recursion), state of the current frame's response_stream
    gpc, gev, gtext, gtool, gdepth, ggen,
    \* start(), _queue_2_watcher: position, the batch in hand, calls made for it
    spc, qpc, messages, ncalls,
    \* _main_loop: position, the segment taken from user_speech_queue, its transcript
    mpc, audio_data, user_text

avars == <<chunk, is_speaking, speech_buffer, ring_buffer, silence_chunks_after_speech, nseg>>
fvars == <<fpc, fdecision, fpath>>
evars == <<epc, edecision>>
qvars == <<decision_queue, user_speech_queue, interrupt_event>>
tvars == <<tts_queue, unfinished_tasks, is_processing_audio, tpc, item, chunks_left, stream,
           texit, nitems, wpc, hist, late_writes>>
agentvars == <<avars, fvars, evars, decision_queue, user_speech_queue>>
rendervars == <<is_processing_audio, tpc, item, chunks_left, stream, texit, hist, late_writes>>
gvars == <<gpc, gev, gtext, gtool, gdepth, ggen>>
wvars == <<qpc, messages, ncalls>>
mvars == <<mpc, audio_data, user_text>>
cvars == <<stop_event, llm_active, q2_queue, nmsgs, q1_queue, conversation_history,
           gvars, spc, wvars, mvars>>

\* ---- helpers on sequences ----
Last(s) == s[Len(s)]

RECURSIVE CountIn(_, _)
CountIn(s, x) ==
    IF s = <<>> THEN 0
    ELSE (IF Head(s) = x THEN 1 ELSE 0) + CountIn(Tail(s), x)

\* (mutant) a full ring refusing the new frame instead of dropping its oldest
RingAppend_keep_oldest(ring, c) ==
    IF Len(ring) < RingMaxLen THEN Append(ring, c) ELSE ring

\* (mutant) a ring that keeps growing
RingAppend_unbounded(ring, c) == Append(ring, c)

\* collections.deque(maxlen=RingMaxLen).append: the oldest is dropped on overflow
RingAppend(ring, c) ==
    IF Len(ring) < RingMaxLen THEN Append(ring, c)
    ELSE Append(Tail(ring), c)

\* len(b''.join(list(buffer))) in bytes
ByteLen(frames) == Len(frames) * FrameBytes

\* silence_duration_ms >= config.VAD_MAX_SILENCE_DURATION_MS
EndpointReached(silence) ==
    silence * VAD_FRAME_MS >= VAD_MAX_SILENCE_DURATION_MS

\* len(final_audio) >= self.min_speech_duration_samples * 2
LongEnough(final_audio) ==
    ByteLen(final_audio) >= min_speech_duration_samples * 2

\* (mutant) every voiced frame treated as an onset
OnsetGuard_always(speaking) == TRUE

\* `if not self.is_speaking` guarding the dispatch of on_speech_start
OnsetGuard(speaking) == ~speaking

\* (mutant) a voiced frame leaving the silence count as it is
SilenceAfterSpeechFrame_kept(silence) == silence

\* self.silence_chunks_after_speech = 0 on every voiced frame
SilenceAfterSpeechFrame(silence) == 0

\* (mutant) only voiced frames kept in the open segment
BufferAppend_voiced_only(buffer, c) ==
    IF c.speech THEN Append(buffer, c) ELSE buffer

\* self.speech_buffer.append(chunk) on a frame of the open segment
BufferAppend(buffer, c) == Append(buffer, c)

\* (mutant) on_speech_end called in the loop itself, which goes on when it returns
CallbackReturned_inline(pc) == pc \in {"idle", "done"}

\* threading.Thread(target=self.on_speech_end, args=(final_audio,)).start(): the call
\* runs on a thread of its own and the loop goes on at once, wherever the call is
CallbackReturned(pc) == TRUE

\* ---- AudioHandler.listen_and_detect: one iteration on a frame ----
NextId ==
    IF speech_buffer = <<>> /\ ring_buffer = <<>> THEN 1 ELSE chunk.id + 1

listen_and_detect(is_speech) ==
    LET c == [id |-> NextId, speech |-> is_speech] IN
    /\ \A s \in Segs : CallbackReturned(epc[s])
    /\ chunk' = c
    /\ IF is_speech
       THEN /\ IF OnsetGuard(is_speaking)
               THEN /\ nseg < MaxSegs
                    /\ is_speaking' = TRUE
                    /\ nseg' = nseg + 1
                    /\ fpc' = [fpc EXCEPT ![nseg + 1] = "spawned"]
                    /\ speech_buffer' = BufferAppend(speech_buffer \o ring_buffer, c)
                    /\ ring_buffer' = <<>>
               ELSE /\ speech_buffer' = BufferAppend(speech_buffer, c)
                    /\ UNCHANGED <<is_speaking, nseg, fpc, ring_buffer>>
            /\ silence_chunks_after_speech' =
                   SilenceAfterSpeechFrame(silence_chunks_after_speech)
            /\ UNCHANGED <<epc>>
       ELSE IF is_speaking
            THEN LET buf == BufferAppend(speech_buffer, c)
                     sil == silence_chunks_after_speech + 1 IN
                 IF EndpointReached(sil)
                 THEN /\ is_speaking' = FALSE
                      /\ speech_buffer' = <<>>
                      /\ ring_buffer' = <<>>
                      /\ silence_chunks_after_speech' = 0
                      /\ epc' = IF LongEnough(buf)
                                THEN [epc EXCEPT ![nseg] = "get"]
                                ELSE epc
                      /\ UNCHANGED <<nseg, fpc>>
                 ELSE /\ speech_buffer' = buf
                      /\ silence_chunks_after_speech' = sil
                      /\ UNCHANGED <<is_speaking, ring_buffer, nseg, fpc, epc>>
            ELSE /\ ring_buffer' = RingAppend(ring_buffer, c)
                 /\ UNCHANGED <<is_speaking, speech_buffer, silence_chunks_after_speech,
                                nseg, fpc, epc>>
    /\ UNCHANGED <<fdecision, fpath, edecision, qvars, tvars, cvars>>

\* (mutant) the except block leaving the frames of the open segment in speech_buffer
listen_exception_buffer_kept ==
    /\ is_speaking' = FALSE
    /\ ring_buffer' = <<>>
    /\ UNCHANGED <<chunk, speech_buffer, silence_chunks_after_speech, nseg, fvars, evars,
                   qvars, tvars, cvars>>

\* `except Exception` of the loop: read or scoring raised, the assembler is reset
listen_exception ==
    /\ is_speaking' = FALSE
    /\ speech_buffer' = <<>>
    /\ ring_buffer' = <<>>
    /\ UNCHANGED <<chunk, silence_chunks_after_speech, nseg, fvars, evars, qvars, tvars, cvars>>

\* ---- VoiceAgent.on_speech_start: starts the fast-path thread ----
on_speech_start(s) ==
    /\ fpc[s] = "spawned"
    /\ fpc' = [fpc EXCEPT ![s] = "sleep"]
    /\ UNCHANGED <<avars, fdecision, fpath, evars, qvars, tvars, cvars>>

\* ---- VoiceAgent._fast_decision_thread ----
\* (mutant) a snapshot of exactly the threshold length counted as too short
SnapshotTooShort_inclusive(audio_snapshot) == ByteLen(audio_snapshot) <= MinSnapshotBytes

\* len(audio_snapshot) < 2048
SnapshotTooShort(audio_snapshot) == ByteLen(audio_snapshot) < MinSnapshotBytes

\* after the sleep: snapshot of the live speech_buffer, length test, transcription;
\* fpath records the way the thread takes through its try block until it ends
FastSnapshot(s) ==
    /\ fpc[s] = "sleep"
    /\ LET audio_snapshot == speech_buffer IN
       IF SnapshotTooShort(audio_snapshot)
       THEN /\ fdecision' = [fdecision EXCEPT ![s] = "ignore"]
            /\ fpath' = [fpath EXCEPT ![s] = "short"]
            /\ fpc' = [fpc EXCEPT ![s] = "finally"]
       ELSE \E text \in {"empty", "words", "raise"} :
              CASE text = "empty" ->
                     /\ fdecision' = [fdecision EXCEPT ![s] = "ignore"]
                     /\ fpath' = [fpath EXCEPT ![s] = "empty"]
                     /\ fpc' = [fpc EXCEPT ![s] = "finally"]
                [] text = "words" ->
                     /\ fpc' = [fpc EXCEPT ![s] = "classify"]
                     /\ fpath' = [fpath EXCEPT ![s] = "words"]
                     /\ UNCHANGED fdecision
                [] text = "raise" ->
                     /\ fpc' = [fpc EXCEPT ![s] = "except"]
                     /\ fpath' = [fpath EXCEPT ![s] = "stt_error"]
                     /\ UNCHANGED fdecision
    /\ UNCHANGED <<avars, evars, qvars, tvars, cvars>>

\* the small model's answer and the branch on it
FastClassify(s) ==
    /\ fpc[s] = "classify"
    /\ \E model_decision \in {"interrupt", "disinterrupt", "raise"} :
         CASE model_decision = "interrupt" ->
                /\ interrupt_event' = TRUE
                /\ fdecision' = [fdecision EXCEPT ![s] = "process"]
                /\ fpath' = [fpath EXCEPT ![s] = "interrupt"]
                /\ fpc' = [fpc EXCEPT ![s] = "finally"]
           [] model_decision = "disinterrupt" ->
                /\ interrupt_event' = FALSE
                /\ fdecision' = [fdecision EXCEPT ![s] = "ignore"]
                /\ fpath' = [fpath EXCEPT ![s] = "disinterrupt"]
                /\ fpc' = [fpc EXCEPT ![s] = "finally"]
           [] model_decision = "raise" ->
                /\ fpc' = [fpc EXCEPT ![s] = "except"]
                /\ fpath' = [fpath EXCEPT ![s] = "llm_error"]
                /\ UNCHANGED <<fdecision, interrupt_event>>
    /\ UNCHANGED <<avars, evars, decision_queue, user_speech_queue, tvars, cvars>>

\* (mutant) the error handler defaulting to ignore and leaving the flag alone
FastExcept_ignore(s) ==
    /\ fpc[s] = "except"
    /\ fdecision' = [fdecision EXCEPT ![s] = "ignore"]
    /\ fpc' = [fpc EXCEPT ![s] = "finally"]
    /\ UNCHANGED <<avars, fpath, evars, qvars, tvars, cvars>>

\* (mutant) the error path ending the thread without its put
FastExcept_no_put(s) ==
    /\ fpc[s] = "except"
    /\ fdecision' = [fdecision EXCEPT ![s] = "process"]
    /\ interrupt_event' = TRUE
    /\ fpc' = [fpc EXCEPT ![s] = "done"]
    /\ fpath' = [fpath EXCEPT ![s] = "none"]
    /\ UNCHANGED <<avars, evars, decision_queue, user_speech_queue, tvars, cvars>>

\* except Exception: default to process and set the interrupt flag
FastExcept(s) ==
    /\ fpc[s] = "except"
    /\ fdecision' = [fdecision EXCEPT ![s] = "process"]
    /\ interrupt_event' = TRUE
    /\ fpc' = [fpc EXCEPT ![s] = "finally"]
    /\ UNCHANGED <<avars, fpath, evars, decision_queue, user_speech_queue, tvars, cvars>>

\* finally: self.decision_queue.put(decision), a blocking put on a Queue(maxsize=1)
FastPut(s) ==
    /\ fpc[s] = "finally"
    /\ Len(decision_queue) < DecisionQueueMaxSize
    /\ decision_queue' = Append(decision_queue, [val |-> fdecision[s], by |-> s])
    /\ fpc' = [fpc EXCEPT ![s] = "done"]
    /\ fpath' = [fpath EXCEPT ![s] = "none"]
    /\ UNCHANGED <<avars, fdecision, evars, user_speech_queue, interrupt_event, tvars, cvars>>

\* ---- VoiceAgent.on_speech_end(audio_data), audio_data being segment s ----
NoDecision == [val |-> "none", by |-> 0]
TimedOut == [val |-> "timeout", by |-> 0]

\* (mutant) every received Decision routed to the put, "ignore" included
EndGet_forward_all(s) ==
    /\ epc[s] = "get"
    /\ decision_queue # <<>>
    /\ edecision' = [edecision EXCEPT ![s] = Head(decision_queue)]
    /\ decision_queue' = Tail(decision_queue)
    /\ epc' = [epc EXCEPT ![s] = "put"]
    /\ UNCHANGED <<avars, fvars, user_speech_queue, interrupt_event, tvars, cvars>>

\* decision = self.decision_queue.get(timeout=10.0) returning an item
EndGet(s) ==
    /\ epc[s] = "get"
    /\ decision_queue # <<>>
    /\ edecision' = [edecision EXCEPT ![s] = Head(decision_queue)]
    /\ decision_queue' = Tail(decision_queue)
    /\ epc' = [epc EXCEPT ![s] =
                 IF Head(decision_queue).val = "process" THEN "put" ELSE "drain"]
    /\ UNCHANGED <<avars, fvars, user_speech_queue, interrupt_event, tvars, cvars>>

\* (mutant) the timeout path discarding the segment instead of forwarding it
EndTimeout_discard(s) ==
    /\ epc[s] = "get"
    /\ decision_queue = <<>>
    /\ edecision' = [edecision EXCEPT ![s] = TimedOut]
    /\ epc' = [epc EXCEPT ![s] = "drain"]
    /\ UNCHANGED <<avars, fvars, qvars, tvars, cvars>>

\* the get raising queue.Empty after the wait bound
EndTimeout(s) ==
    /\ epc[s] = "get"
    /\ decision_queue = <<>>
    /\ edecision' = [edecision EXCEPT ![s] = TimedOut]
    /\ epc' = [epc EXCEPT ![s] = "put"]
    /\ UNCHANGED <<avars, fvars, qvars, tvars, cvars>>

\* self.user_speech_queue.put(audio_data)
EndPut(s) ==
    /\ epc[s] = "put"
    /\ user_speech_queue' = Append(user_speech_queue, s)
    /\ epc' = [epc EXCEPT ![s] = "drain"]
    /\ UNCHANGED <<avars, fvars, edecision, decision_queue, interrupt_event, tvars, cvars>>

\* finally: while not self.decision_queue.empty(): get_nowait()
EndDrain(s) ==
    /\ epc[s] = "drain"
    /\ IF decision_queue = <<>>
       THEN /\ epc' = [epc EXCEPT ![s] = "done"]
            /\ UNCHANGED decision_queue
       ELSE /\ decision_queue' = Tail(decision_queue)
            /\ UNCHANGED epc
    /\ UNCHANGED <<avars, fvars, edecision, user_speech_queue, interrupt_event, tvars, cvars>>

\* ---- TTSHandler ----
NoItem == [id |-> 0, text |-> "none"]

\* texts by what the handler can tell apart: "blank" is empty or whitespace,
\* "markup" is non-blank but empty after preprocess_sentence (such as "**"),
\* "speech" keeps words after preprocessing
Texts == {"blank", "markup", "speech"}

\* text.strip() is empty
IsBlank(text) == text = "blank"

\* utils.text_processor.preprocess_sentence
preprocess_sentence(text) == IF text = "speech" THEN "speech" ELSE "blank"

\* Queue.task_done on the counter of unfinished tasks
TaskDone(n) == n - 1

\* (mutant) the render loop never looking at the interrupt flag
InterruptSeen_never(ev) == FALSE

\* interrupt_event.is_set() tested before a chunk is written
InterruptSeen(ev) == ev

\* TTSHandler.play_audio_stream(text, interrupt_event)
play_audio_stream(text) ==
    IF IsBlank(text)
    THEN UNCHANGED <<tts_queue, unfinished_tasks, nitems>>
    ELSE /\ nitems < MaxItems
         /\ tts_queue' = Append(tts_queue, [id |-> nitems + 1, text |-> text])
         /\ unfinished_tasks' = unfinished_tasks + 1
         /\ nitems' = nitems + 1

\* (mutant) a clear that leaves the newest pending item
clear_queue_keeps_newest ==
    /\ tts_queue' = IF tts_queue = <<>> THEN <<>> ELSE <<Last(tts_queue)>>
    /\ UNCHANGED unfinished_tasks

\* TTSHandler.clear_queue: self.tts_queue.queue.clear() under the mutex
clear_queue ==
    /\ tts_queue' = <<>>
    /\ UNCHANGED unfinished_tasks

\* TTSHandler.is_speaking
tts_is_speaking == is_processing_audio \/ tts_queue # <<>>

\* _process_tts_queue: text, interrupt_event = self.tts_queue.get(timeout=0.1)
TtsGet ==
    /\ tpc = "get"
    /\ tts_queue # <<>>
    /\ item' = Head(tts_queue)
    /\ tts_queue' = Tail(tts_queue)
    /\ hist' = [hist EXCEPT ![Head(tts_queue).id].deq = TRUE]
    /\ late_writes' = 0
    /\ texit' = "none"
    /\ tpc' = "set"
    /\ UNCHANGED <<agentvars, cvars, interrupt_event, unfinished_tasks, is_processing_audio,
                   chunks_left, stream, nitems, wpc>>

\* self._is_processing_audio.set()
TtsSetProcessing ==
    /\ tpc = "set"
    /\ is_processing_audio' = TRUE
    /\ tpc' = "preprocess"
    /\ UNCHANGED <<agentvars, cvars, interrupt_event, tts_queue, unfinished_tasks, item,
                   chunks_left, stream, texit, nitems, wpc, hist, late_writes>>

\* (mutant) an item that is empty after preprocessing skipped without task_done()
TtsPreprocess_no_task_done ==
    /\ tpc = "preprocess"
    /\ IF IsBlank(preprocess_sentence(item.text))
       THEN /\ texit' = "skipped"
            /\ tpc' = "get"
            /\ UNCHANGED stream
       ELSE /\ tpc' = "open"
            /\ stream' = "none"
            /\ UNCHANGED texit
    /\ UNCHANGED <<agentvars, cvars, interrupt_event, tts_queue, is_processing_audio, item,
                   chunks_left, nitems, wpc, late_writes, unfinished_tasks, hist>>

\* preprocessing; text empty afterwards: task_done() and continue; else stream = None
TtsPreprocess ==
    /\ tpc = "preprocess"
    /\ IF IsBlank(preprocess_sentence(item.text))
       THEN /\ unfinished_tasks' = TaskDone(unfinished_tasks)
            /\ hist' = [hist EXCEPT ![item.id].done = @ + 1]
            /\ texit' = "skipped"
            /\ tpc' = "get"
            /\ UNCHANGED stream
       ELSE /\ tpc' = "open"
            /\ stream' = "none"
            /\ UNCHANGED <<unfinished_tasks, hist, texit>>
    /\ UNCHANGED <<agentvars, cvars, interrupt_event, tts_queue, is_processing_audio, item,
                   chunks_left, nitems, wpc, late_writes>>

\* the synthesis request and self.p.open(...); either may raise
TtsOpen ==
    /\ tpc = "open"
    /\ \/ /\ \E n \in 0..MaxChunks : chunks_left' = n
          /\ stream' = "open"
          /\ tpc' = "loop"
          /\ UNCHANGED texit
       \/ /\ texit' = "error"
          /\ tpc' = "finally"
          /\ UNCHANGED <<chunks_left, stream>>
    /\ UNCHANGED <<agentvars, cvars, interrupt_event, tts_queue, unfinished_tasks,
                   is_processing_audio, item, nitems, wpc, hist, late_writes>>

\* for chunk in response.iter_bytes(...): if interrupt_event.is_set(): break
TtsLoop ==
    /\ tpc = "loop"
    /\ IF chunks_left = 0
       THEN /\ texit' = "end"
            /\ tpc' = "finally"
       ELSE \/ /\ texit' = "error"
               /\ tpc' = "finally"
            \/ IF InterruptSeen(interrupt_event)
               THEN /\ texit' = "break"
                    /\ tpc' = "finally"
               ELSE /\ tpc' = "write"
                    /\ UNCHANGED texit
    /\ UNCHANGED <<agentvars, cvars, interrupt_event, tts_queue, unfinished_tasks,
                   is_processing_audio, item, chunks_left, stream, nitems, wpc, hist,
                   late_writes>>

\* stream.write(chunk)
TtsWrite ==
    /\ tpc = "write"
    /\ chunks_left' = chunks_left - 1
    /\ late_writes' = IF interrupt_event THEN late_writes + 1 ELSE late_writes
    /\ tpc' = "loop"
    /\ UNCHANGED <<agentvars, cvars, interrupt_event, tts_queue, unfinished_tasks,
                   is_processing_audio, item, stream, texit, nitems, wpc, hist>>

\* (mutant) the finally block marking the item done but leaving its stream open
TtsFinally_stream_left_open ==
    /\ tpc = "finally"
    /\ unfinished_tasks' = TaskDone(unfinished_tasks)
    /\ hist' = [hist EXCEPT ![item.id].done = @ + 1]
    /\ tpc' = "clear"
    /\ UNCHANGED <<agentvars, cvars, interrupt_event, tts_queue, is_processing_audio, item,
                   chunks_left, stream, texit, nitems, wpc, late_writes>>

\* finally: stop and close the stream if it was opened, self.tts_queue.task_done()
TtsFinally ==
    /\ tpc = "finally"
    /\ stream' = IF stream = "open" THEN "closed" ELSE stream
    /\ unfinished_tasks' = TaskDone(unfinished_tasks)
    /\ hist' = [hist EXCEPT ![item.id].done = @ + 1]
    /\ tpc' = "clear"
    /\ UNCHANGED <<agentvars, cvars, interrupt_event, tts_queue, is_processing_audio, item,
                   chunks_left, texit, nitems, wpc, late_writes>>

\* (mutant) the active-render flag left set when the item ended in an exception
TtsClearProcessing_kept_on_error ==
    /\ tpc = "clear"
    /\ is_processing_audio' = (texit = "error")
    /\ tpc' = "get"
    /\ UNCHANGED <<agentvars, cvars, interrupt_event, tts_queue, unfinished_tasks, item,
                   chunks_left, stream, texit, nitems, wpc, hist, late_writes>>

\* finally: self._is_processing_audio.clear(), then the next iteration
TtsClearProcessing ==
    /\ tpc = "clear"
    /\ is_processing_audio' = FALSE
    /\ tpc' = "get"
    /\ UNCHANGED <<agentvars, cvars, interrupt_event, tts_queue, unfinished_tasks, item,
                   chunks_left, stream, texit, nitems, wpc, hist, late_writes>>

\* ---- callers of the handler ----
CallPlay ==
    /\ \E text \in Texts : play_audio_stream(text)
    /\ UNCHANGED <<agentvars, cvars, interrupt_event, is_processing_audio, tpc, item,
                   chunks_left, stream, texit, wpc, hist, late_writes>>

CallClear ==
    /\ clear_queue
    /\ UNCHANGED <<agentvars, cvars, interrupt_event, is_processing_audio, tpc, item,
                   chunks_left, stream, texit, nitems, wpc, hist, late_writes>>

\* TTSHandler.wait_for_completion: self.tts_queue.join()
WaitBegin ==
    /\ wpc = "idle"
    /\ wpc' = "join"
    /\ UNCHANGED <<agentvars, cvars, interrupt_event, tts_queue, unfinished_tasks,
                   is_processing_audio, tpc, item, chunks_left, stream, texit, nitems,
                   hist, late_writes>>

WaitReturn ==
    /\ wpc = "join"
    /\ unfinished_tasks = 0
    /\ wpc' = "idle"
    /\ UNCHANGED <<agentvars, cvars, interrupt_event, tts_queue, unfinished_tasks,
                   is_processing_audio, tpc, item, chunks_left, stream, texit, nitems,
                   hist, late_writes>>

\* self.interrupt_event.set() / .clear() by the agent's threads
SetInterrupt ==
    /\ interrupt_event' = TRUE
    /\ UNCHANGED <<agentvars, tvars, cvars>>

ClearInterrupt ==
    /\ interrupt_event' = FALSE
    /\ late_writes' = 0
    /\ UNCHANGED <<agentvars, cvars, tts_queue, unfinished_tasks, is_processing_audio, tpc,
                   item, chunks_left, stream, texit, nitems, wpc, hist>>

\* ---- LLMHandler.get_llm_response_stream, consumed by _trigger_large_llm ----
\* what the generator yields: a sentence (never blank: every yield is of a stripped
\* non-empty buffer) or a tool call; "end" is the generator finishing
StreamEvents == {"markup", "speech", "tool_call", "end"}

\* ---- VoiceAgent._trigger_large_llm, called on thread c ----
\* self.tts_handler.clear_queue()
TrigClearQueue(c) ==
    /\ gpc[c] = "clear_queue"
    /\ clear_queue
    /\ gpc' = [gpc EXCEPT ![c] = "clear_flag"]
    /\ UNCHANGED <<agentvars, interrupt_event, rendervars, nitems, wpc, stop_event,
                   llm_active, q2_queue, nmsgs, q1_queue, conversation_history, gev,
                   gtext, gtool, gdepth, ggen, spc, wvars, mvars>>

\* (mutant) a response started without clearing the interrupt flag
TrigClearFlag_skipped(c) ==
    /\ gpc[c] = "clear_flag"
    /\ gpc' = [gpc EXCEPT ![c] = "next"]
    /\ gtext' = [gtext EXCEPT ![c] = FALSE]
    /\ gtool' = [gtool EXCEPT ![c] = FALSE]
    /\ ggen' = [ggen EXCEPT ![c] = "new"]
    /\ UNCHANGED <<agentvars, interrupt_event, tts_queue, unfinished_tasks, rendervars,
                   nitems, wpc, stop_event, llm_active, q2_queue, nmsgs, q1_queue,
                   conversation_history, gev, gdepth, spc, wvars, mvars>>

\* self.interrupt_event.clear(); the generator is created, the locals initialised
TrigClearFlag(c) ==
    /\ gpc[c] = "clear_flag"
    /\ interrupt_event' = FALSE
    /\ gpc' = [gpc EXCEPT ![c] = "next"]
    /\ gtext' = [gtext EXCEPT ![c] = FALSE]
    /\ gtool' = [gtool EXCEPT ![c] = FALSE]
    /\ ggen' = [ggen EXCEPT ![c] = "new"]
    /\ UNCHANGED <<agentvars, tts_queue, unfinished_tasks, rendervars, nitems, wpc,
                   stop_event, llm_active, q2_queue, nmsgs, q1_queue,
                   conversation_history, gev, gdepth, spc, wvars, mvars>>

\* for chunk_type, content in response_stream, first iteration: the generator starts
\* running, self._set_active(True), and requests the completion
TrigStreamStart(c) ==
    /\ gpc[c] = "next"
    /\ ggen[c] = "new"
    /\ llm_active' = TRUE
    /\ ggen' = [ggen EXCEPT ![c] = "running"]
    /\ UNCHANGED <<agentvars, qvars, tvars, stop_event, q2_queue, nmsgs, q1_queue,
                   conversation_history, gpc, gev, gtext, gtool, gdepth, spc, wvars, mvars>>

\* the generator runs to its next yield, or to its end (its finally resets _is_active;
\* an exception inside it is caught there and ends it the same way)
TrigNext(c) ==
    /\ gpc[c] = "next"
    /\ ggen[c] \in {"running", "suspended"}
    /\ \E ev \in StreamEvents :
         /\ ev = "tool_call" => gdepth[c] < MaxCalls
         /\ ev \in {"markup", "speech"} => nitems < MaxItems
         /\ gev' = [gev EXCEPT ![c] = ev]
         /\ IF ev = "end"
            THEN /\ llm_active' = FALSE
                 /\ ggen' = [ggen EXCEPT ![c] = "ended"]
                 /\ gpc' = [gpc EXCEPT ![c] = "after_loop"]
            ELSE /\ ggen' = [ggen EXCEPT ![c] = "suspended"]
                 /\ gpc' = [gpc EXCEPT ![c] = "check"]
                 /\ UNCHANGED llm_active
    /\ UNCHANGED <<agentvars, qvars, tvars, stop_event, q2_queue, nmsgs, q1_queue,
                   conversation_history, gtext, gtool, gdepth, spc, wvars, mvars>>

\* (mutant) the response loop not looking at the interrupt flag
TrigCheck_flag_ignored(c) ==
    /\ gpc[c] = "check"
    /\ IF gev[c] = "tool_call"
       THEN /\ gtool' = [gtool EXCEPT ![c] = TRUE]
            /\ gpc' = [gpc EXCEPT ![c] = "after_loop"]
       ELSE /\ gpc' = [gpc EXCEPT ![c] = "play"]
            /\ UNCHANGED gtool
    /\ UNCHANGED <<agentvars, qvars, tvars, stop_event, llm_active, q2_queue, nmsgs,
                   q1_queue, conversation_history, gev, gtext, gdepth, ggen, spc, wvars,
                   mvars>>

\* if self.interrupt_event.is_set(): break; else the branch on chunk_type
TrigCheck(c) ==
    /\ gpc[c] = "check"
    /\ IF interrupt_event
       THEN /\ gpc' = [gpc EXCEPT ![c] = "after_loop"]
            /\ UNCHANGED gtool
       ELSE IF gev[c] = "tool_call"
            THEN /\ gtool' = [gtool EXCEPT ![c] = TRUE]
                 /\ gpc' = [gpc EXCEPT ![c] = "after_loop"]
            ELSE /\ gpc' = [gpc EXCEPT ![c] = "play"]
                 /\ UNCHANGED gtool
    /\ UNCHANGED <<agentvars, qvars, tvars, stop_event, llm_active, q2_queue, nmsgs,
                   q1_queue, conversation_history, gev, gtext, gdepth, ggen, spc, wvars, mvars>>

\* self.tts_handler.play_audio_stream(content, ...); full_response_text += content
TrigPlay(c) ==
    /\ gpc[c] = "play"
    /\ play_audio_stream(gev[c])
    /\ gtext' = [gtext EXCEPT ![c] = TRUE]
    /\ gpc' = [gpc EXCEPT ![c] = "next"]
    /\ UNCHANGED <<agentvars, interrupt_event, rendervars, wpc, stop_event, llm_active,
                   q2_queue, nmsgs, q1_queue, conversation_history, gev, gtool, gdepth,
                   ggen, spc, wvars, mvars>>

\* if tool_call_in_progress and not self.interrupt_event.is_set()
TrigAfterLoop(c) ==
    /\ gpc[c] = "after_loop"
    /\ gpc' = [gpc EXCEPT ![c] = IF gtool[c] /\ ~interrupt_event THEN "tool" ELSE "join"]
    /\ UNCHANGED <<agentvars, qvars, tvars, stop_event, llm_active, q2_queue, nmsgs,
                   q1_queue, conversation_history, gev, gtext, gtool, gdepth, ggen, spc,
                   wvars, mvars>>

\* the tool call: send_message_to_computer_agent, two history entries, then the
\* recursive self._trigger_large_llm() in a new frame
TrigTool(c) ==
    /\ gpc[c] = "tool"
    /\ q1_queue' = Append(q1_queue, "message")
    /\ conversation_history' =
           conversation_history \o <<[role |-> "assistant", content |-> <<"tool_calls">>],
                                     [role |-> "tool", content |-> <<"result">>]>>
    /\ gdepth' = [gdepth EXCEPT ![c] = @ + 1]
    /\ gpc' = [gpc EXCEPT ![c] = "clear_queue"]
    /\ UNCHANGED <<agentvars, qvars, tvars, stop_event, llm_active, q2_queue, nmsgs,
                   gev, gtext, gtool, ggen, spc, wvars, mvars>>

\* self.tts_handler.wait_for_completion() returning: tts_queue.join()
TrigJoin(c) ==
    /\ gpc[c] = "join"
    /\ unfinished_tasks = 0
    /\ gpc' = [gpc EXCEPT ![c] = "append"]
    /\ UNCHANGED <<agentvars, qvars, tvars, stop_event, llm_active, q2_queue, nmsgs,
                   q1_queue, conversation_history, gev, gtext, gtool, gdepth, ggen, spc,
                   wvars, mvars>>

\* if not self.interrupt_event.is_set() and full_response_text.strip(): append
TrigAppend(c) ==
    /\ gpc[c] = "append"
    /\ conversation_history' =
           IF ~interrupt_event /\ gtext[c]
           THEN Append(conversation_history,
                       [role |-> "assistant", content |-> <<"full_response_text">>])
           ELSE conversation_history
    /\ gpc' = [gpc EXCEPT ![c] = "finally"]
    /\ UNCHANGED <<agentvars, qvars, tvars, stop_event, llm_active, q2_queue, nmsgs,
                   q1_queue, gev, gtext, gtool, gdepth, ggen, spc, wvars, mvars>>

\* finally: self.interrupt_event.clear(); the frame is left, which closes a generator
\* left suspended (its finally resets _is_active); a recursive call returns into the
\* `return` of the frame below, whose own finally comes next
TrigFinally(c) ==
    /\ gpc[c] = "finally"
    /\ interrupt_event' = FALSE
    /\ llm_active' = (IF ggen[c] = "suspended" THEN FALSE ELSE llm_active)
    /\ IF gdepth[c] > 0
       THEN /\ gdepth' = [gdepth EXCEPT ![c] = @ - 1]
            /\ ggen' = [ggen EXCEPT ![c] = "suspended"]
            /\ UNCHANGED gpc
       ELSE /\ gpc' = [gpc EXCEPT ![c] = "returned"]
            /\ ggen' = [ggen EXCEPT ![c] = "none"]
            /\ UNCHANGED gdepth
    /\ UNCHANGED <<agentvars, decision_queue, user_speech_queue, tvars, stop_event,
                   q2_queue, nmsgs, q1_queue, conversation_history, gev, gtext, gtool,
                   spc, wvars, mvars>>

\* ---- VoiceAgent.start / stop ----
\* audio_handler.start(), main_thread.start(), queue_2_watcher_thread.start()
StartThreads ==
    /\ spc = "init"
    /\ spc' = "greet"
    /\ qpc' = "test"
    /\ mpc' = "test"
    /\ UNCHANGED <<agentvars, qvars, tvars, stop_event, llm_active, q2_queue, nmsgs,
                   q1_queue, conversation_history, gvars, messages, ncalls, audio_data, user_text>>

\* the greeting request appended, then self._trigger_large_llm()
StartGreet ==
    /\ spc = "greet"
    /\ conversation_history' =
           Append(conversation_history, [role |-> "user", content |-> <<"greeting">>])
    /\ gpc' = [gpc EXCEPT !["start"] = "clear_queue"]
    /\ spc' = "trigger"
    /\ UNCHANGED <<agentvars, qvars, tvars, stop_event, llm_active, q2_queue, nmsgs,
                   q1_queue, gev, gtext, gtool, gdepth, ggen, wvars, mvars>>

StartReturn ==
    /\ spc = "trigger"
    /\ gpc["start"] = "returned"
    /\ gpc' = [gpc EXCEPT !["start"] = "idle"]
    /\ spc' = "done"
    /\ UNCHANGED <<agentvars, qvars, tvars, stop_event, llm_active, q2_queue, nmsgs,
                   q1_queue, conversation_history, gev, gtext, gtool, gdepth, ggen, wvars, mvars>>

\* VoiceAgent.stop: self.stop_event.set()
Stop ==
    /\ spc # "init"
    /\ ~stop_event
    /\ stop_event' = TRUE
    /\ UNCHANGED <<agentvars, qvars, tvars, llm_active, q2_queue, nmsgs, q1_queue,
                   conversation_history, gvars, spc, wvars, mvars>>

\* send_message_to_phone_agent: q2_queue.put(message), messages numbered as they come
Q2Put ==
    /\ nmsgs < MaxMsgs
    /\ nmsgs' = nmsgs + 1
    /\ q2_queue' = Append(q2_queue, nmsgs + 1)
    /\ UNCHANGED <<agentvars, qvars, tvars, stop_event, llm_active, q1_queue,
                   conversation_history, gvars, spc, wvars, mvars>>

\* ---- VoiceAgent._is_system_busy ----
_is_system_busy == llm_active \/ tts_is_speaking

\* f"[FROM_COMPUTER_AGENT] {message}" as the prefix followed by the message
FromComputerAgent(message) == <<"[FROM_COMPUTER_AGENT] ", message>>

\* (mutant) a get that takes the oldest message only
Q2Get_one(q) == [messages |-> <<Head(q)>>, rest |-> Tail(q)]

\* Q2MessageQueue.get: everything queued, in order, leaving the queue empty
Q2Get(q) == [messages |-> q, rest |-> <<>>]

\* ---- VoiceAgent._queue_2_watcher ----
\* while not self.stop_event.is_set()
WatcherTest ==
    /\ qpc = "test"
    /\ qpc' = IF stop_event THEN "done" ELSE "busy?"
    /\ UNCHANGED <<agentvars, qvars, tvars, stop_event, llm_active, q2_queue, nmsgs,
                   q1_queue, conversation_history, gvars, spc, messages, ncalls, mvars>>

\* (mutant) the poll going on to the queue whether or not the system is busy
WatcherBusy_ignored ==
    /\ qpc = "busy?"
    /\ qpc' = "empty?"
    /\ UNCHANGED <<agentvars, qvars, tvars, stop_event, llm_active, q2_queue, nmsgs,
                   q1_queue, conversation_history, gvars, spc, messages, ncalls, mvars>>

\* if not self._is_system_busy() ...
WatcherBusy ==
    /\ qpc = "busy?"
    /\ qpc' = IF _is_system_busy THEN "sleep" ELSE "empty?"
    /\ UNCHANGED <<agentvars, qvars, tvars, stop_event, llm_active, q2_queue, nmsgs,
                   q1_queue, conversation_history, gvars, spc, messages, ncalls, mvars>>

\* ... and not q2_queue.is_empty()
WatcherEmpty ==
    /\ qpc = "empty?"
    /\ qpc' = IF q2_queue = <<>> THEN "sleep" ELSE "get"
    /\ UNCHANGED <<agentvars, qvars, tvars, stop_event, llm_active, q2_queue, nmsgs,
                   q1_queue, conversation_history, gvars, spc, messages, ncalls, mvars>>

\* else: time.sleep(0.5)
WatcherSleep ==
    /\ qpc = "sleep"
    /\ qpc' = "test"
    /\ UNCHANGED <<agentvars, qvars, tvars, stop_event, llm_active, q2_queue, nmsgs,
                   q1_queue, conversation_history, gvars, spc, messages, ncalls, mvars>>

\* messages = q2_queue.get()
WatcherGet ==
    /\ qpc = "get"
    /\ messages' = Q2Get(q2_queue).messages
    /\ q2_queue' = Q2Get(q2_queue).rest
    /\ ncalls' = 0
    /\ qpc' = "for"
    /\ UNCHANGED <<agentvars, qvars, tvars, stop_event, llm_active, nmsgs, q1_queue,
                   conversation_history, gvars, spc, mvars>>

\* for message in messages: append; after the loop self._trigger_large_llm() is called
WatcherFor ==
    /\ qpc = "for"
    /\ IF messages # <<>>
       THEN /\ conversation_history' =
                   Append(conversation_history,
                          [role |-> "user", content |-> FromComputerAgent(Head(messages))])
            /\ messages' = Tail(messages)
            /\ UNCHANGED <<qpc, gpc, ncalls>>
       ELSE /\ gpc' = [gpc EXCEPT !["watcher"] = "clear_queue"]
            /\ ncalls' = ncalls + 1
            /\ qpc' = "trigger"
            /\ UNCHANGED <<conversation_history, messages>>
    /\ UNCHANGED <<agentvars, qvars, tvars, stop_event, llm_active, q2_queue, nmsgs,
                   q1_queue, gev, gtext, gtool, gdepth, ggen, spc, mvars>>

\* _trigger_large_llm returned, next iteration of the loop
WatcherReturn ==
    /\ qpc = "trigger"
    /\ gpc["watcher"] = "returned"
    /\ gpc' = [gpc EXCEPT !["watcher"] = "idle"]
    /\ qpc' = "test"
    /\ UNCHANGED <<agentvars, qvars, tvars, stop_event, llm_active, q2_queue, nmsgs,
                   q1_queue, conversation_history, gev, gtext, gtool, gdepth, ggen, spc,
                   messages, ncalls, mvars>>

\* ---- VoiceAgent._main_loop ----
\* while not self.stop_event.is_set()
MainTest ==
    /\ mpc = "test"
    /\ mpc' = IF stop_event THEN "done" ELSE "get"
    /\ UNCHANGED <<agentvars, interrupt_event, tvars, stop_event, llm_active, q2_queue,
                   nmsgs, q1_queue, conversation_history, gvars, spc, wvars, audio_data,
                   user_text>>

\* (mutant) the newest segment taken first
MainGet_newest_first ==
    /\ mpc = "get"
    /\ user_speech_queue # <<>>
    /\ audio_data' = Last(user_speech_queue)
    /\ user_speech_queue' = SubSeq(user_speech_queue, 1, Len(user_speech_queue) - 1)
    /\ mpc' = "transcribe"
    /\ UNCHANGED <<avars, fvars, evars, decision_queue, interrupt_event, tvars,
                   stop_event, llm_active, q2_queue, nmsgs, q1_queue,
                   conversation_history, gvars, spc, wvars, user_text>>

\* audio_data = self.user_speech_queue.get(timeout=1) returning a segment
MainGet ==
    /\ mpc = "get"
    /\ user_speech_queue # <<>>
    /\ audio_data' = Head(user_speech_queue)
    /\ user_speech_queue' = Tail(user_speech_queue)
    /\ mpc' = "transcribe"
    /\ UNCHANGED <<avars, fvars, evars, decision_queue, interrupt_event, tvars,
                   stop_event, llm_active, q2_queue, nmsgs, q1_queue,
                   conversation_history, gvars, spc, wvars, user_text>>

\* the get raising queue.Empty after its second: continue
MainEmpty ==
    /\ mpc = "get"
    /\ user_speech_queue = <<>>
    /\ mpc' = "test"
    /\ UNCHANGED <<agentvars, interrupt_event, tvars, stop_event, llm_active, q2_queue,
                   nmsgs, q1_queue, conversation_history, gvars, spc, wvars, audio_data,
                   user_text>>

\* transcripts by what the loop can tell apart: with the marker of
\* _apply_input_guardrails in it or without; "raise" is _transcribe raising
Transcripts == {"words", "marker", "raise"}

\* "捣乱" in user_text
HasMarker(text) == text = "marker"

\* user_text = self._transcribe(audio_data), then the test of _apply_input_guardrails
MainTranscribe ==
    /\ mpc = "transcribe"
    /\ \E text \in Transcripts :
         IF text = "raise"
         THEN /\ mpc' = "except"
              /\ UNCHANGED user_text
         ELSE /\ user_text' = text
              /\ mpc' = IF HasMarker(text) THEN "guard_clear" ELSE "append"
    /\ UNCHANGED <<agentvars, interrupt_event, tvars, stop_event, llm_active, q2_queue,
                   nmsgs, q1_queue, conversation_history, gvars, spc, wvars, audio_data>>

\* _apply_input_guardrails: self.interrupt_event.clear()
MainGuardClear ==
    /\ mpc = "guard_clear"
    /\ interrupt_event' = FALSE
    /\ mpc' = "guard_play"
    /\ UNCHANGED <<agentvars, tvars, stop_event, llm_active, q2_queue, nmsgs, q1_queue,
                   conversation_history, gvars, spc, wvars, audio_data, user_text>>

\* _apply_input_guardrails: play_audio_stream of the scripted sentence
MainGuardPlay ==
    /\ mpc = "guard_play"
    /\ nitems < MaxItems
    /\ play_audio_stream("speech")
    /\ mpc' = "guard_join"
    /\ UNCHANGED <<agentvars, interrupt_event, rendervars, wpc, stop_event, llm_active,
                   q2_queue, nmsgs, q1_queue, conversation_history, gvars, spc, wvars,
                   audio_data, user_text>>

\* (mutant) the guardrail returning False after its scripted sentence
MainGuardJoin_falls_through ==
    /\ mpc = "guard_join"
    /\ unfinished_tasks = 0
    /\ mpc' = "append"
    /\ UNCHANGED <<agentvars, interrupt_event, tvars, stop_event, llm_active, q2_queue,
                   nmsgs, q1_queue, conversation_history, gvars, spc, wvars, audio_data,
                   user_text>>

\* _apply_input_guardrails: wait_for_completion() returning, return True; continue
\* (the locals of the iteration are dead from here on and are reset)
MainGuardJoin ==
    /\ mpc = "guard_join"
    /\ unfinished_tasks = 0
    /\ mpc' = "test"
    /\ audio_data' = 0
    /\ user_text' = "none"
    /\ UNCHANGED <<agentvars, interrupt_event, tvars, stop_event, llm_active, q2_queue,
                   nmsgs, q1_queue, conversation_history, gvars, spc, wvars>>

\* the transcript of the segment as content of a history entry
UserTurn(s) == <<"user_text", s>>

\* the transcript appended as a user entry, then self._trigger_large_llm()
MainAppend ==
    /\ mpc = "append"
    /\ conversation_history' =
           Append(conversation_history, [role |-> "user", content |-> UserTurn(audio_data)])
    /\ gpc' = [gpc EXCEPT !["main"] = "clear_queue"]
    /\ mpc' = "trigger"
    /\ UNCHANGED <<agentvars, interrupt_event, tvars, stop_event, llm_active, q2_queue,
                   nmsgs, q1_queue, gev, gtext, gtool, gdepth, ggen, spc, wvars,
                   audio_data, user_text>>

\* _trigger_large_llm returned, next iteration of the loop
MainReturn ==
    /\ mpc = "trigger"
    /\ gpc["main"] = "returned"
    /\ gpc' = [gpc EXCEPT !["main"] = "idle"]
    /\ mpc' = "test"
    /\ audio_data' = 0
    /\ user_text' = "none"
    /\ UNCHANGED <<agentvars, interrupt_event, tvars, stop_event, llm_active, q2_queue,
                   nmsgs, q1_queue, conversation_history, gev, gtext, gtool, gdepth, ggen,
                   spc, wvars>>

\* (mutant) an exception ending the loop
MainExcept_exit ==
    /\ mpc = "except"
    /\ mpc' = "done"
    /\ UNCHANGED <<agentvars, interrupt_event, tvars, stop_event, llm_active, q2_queue,
                   nmsgs, q1_queue, conversation_history, gvars, spc, wvars, audio_data,
                   user_text>>

\* except Exception: the error is printed, next iteration of the loop
MainExcept ==
    /\ mpc = "except"
    /\ mpc' = "test"
    /\ audio_data' = 0
    /\ user_text' = "none"
    /\ UNCHANGED <<agentvars, interrupt_event, tvars, stop_event, llm_active, q2_queue,
                   nmsgs, q1_queue, conversation_history, gvars, spc, wvars>>

\* ---- frames fed to the assembler ----
Voiced(frames) == Len(SelectSeq(frames, LAMBDA f : f.speech))

\* assembler alone: any idle run up to MaxIdle, up to MaxVoiced voiced frames per
\* segment, speech resuming either at once or on the last frame before the endpoint
VadInput(is_speech) ==
    IF is_speaking
    THEN is_speech =>
           /\ Voiced(speech_buffer) < MaxVoiced
           /\ \/ silence_chunks_after_speech = 0
              \/ EndpointReached(silence_chunks_after_speech + 1)
    ELSE ~is_speech => NextId <= MaxIdle

VadFrame == \E is_speech \in BOOLEAN : VadInput(is_speech) /\ listen_and_detect(is_speech)

VadException == listen_exception

\* with the threads running: utterances of one voiced frame, back to back, a new one
\* starting once the threads of all segments but the latest have ended
ArbFrame ==
    /\ ~is_speaking =>
          \A s \in 1..(nseg - 1) : fpc[s] = "done" /\ epc[s] \in {"idle", "done"}
    /\ listen_and_detect(~is_speaking)

ArbException ==
    /\ is_speaking
    /\ silence_chunks_after_speech = 0
    /\ listen_exception

\* ---- specifications ----
vars == <<avars, fvars, evars, qvars, tvars, cvars>>

Init ==
    /\ chunk = [id |-> 0, speech |-> FALSE]
    /\ is_speaking = FALSE
    /\ speech_buffer = <<>>
    /\ ring_buffer = <<>>
    /\ silence_chunks_after_speech = 0
    /\ nseg = 0
    /\ fpc = [s \in Segs |-> "idle"]
    /\ fdecision = [s \in Segs |-> "process"]
    /\ fpath = [s \in Segs |-> "none"]
    /\ epc = [s \in Segs |-> "idle"]
    /\ edecision = [s \in Segs |-> NoDecision]
    /\ decision_queue = <<>>
    /\ user_speech_queue = <<>>
    /\ interrupt_event = FALSE
    /\ tts_queue = <<>>
    /\ unfinished_tasks = 0
    /\ is_processing_audio = FALSE
    /\ tpc = "get"
    /\ item = NoItem
    /\ chunks_left = 0
    /\ stream = "none"
    /\ texit = "none"
    /\ nitems = 0
    /\ wpc = "idle"
    /\ hist = [i \in Items |-> [deq |-> FALSE, done |-> 0]]
    /\ late_writes = 0
    /\ stop_event = FALSE
    /\ llm_active = FALSE
    /\ q2_queue = <<>>
    /\ nmsgs = 0
    /\ q1_queue = <<>>
    /\ conversation_history = <<[role |-> "system", content |-> <<"SYSTEM_PROMPT">>]>>
    /\ gpc = [c \in Callers |-> "idle"]
    /\ gev = [c \in Callers |-> "none"]
    /\ gtext = [c \in Callers |-> FALSE]
    /\ gtool = [c \in Callers |-> FALSE]
    /\ gdepth = [c \in Callers |-> 0]
    /\ ggen = [c \in Callers |-> "none"]
    /\ spc = "init"
    /\ qpc = "unstarted"
    /\ messages = <<>>
    /\ mpc = "unstarted"
    /\ audio_data = 0
    /\ user_text = "none"
    /\ ncalls = 0

NextVAD == VadFrame \/ VadException

SpecVAD == Init /\ [][NextVAD]_vars

Next ==
    \/ ArbFrame
    \/ ArbException
    \/ \E s \in Segs : on_speech_start(s)
    \/ \E s \in Segs : FastSnapshot(s)
    \/ \E s \in Segs : FastClassify(s)
    \/ \E s \in Segs : FastExcept(s)
    \/ \E s \in Segs : FastPut(s)
    \/ \E s \in Segs : EndGet(s)
    \/ \E s \in Segs : EndTimeout(s)
    \/ \E s \in Segs : EndPut(s)
    \/ \E s \in Segs : EndDrain(s)

Spec == Init /\ [][Next]_vars

NextTTS ==
    \/ CallPlay
    \/ CallClear
    \/ WaitBegin
    \/ WaitReturn
    \/ SetInterrupt
    \/ ClearInterrupt
    \/ TtsGet
    \/ TtsSetProcessing
    \/ TtsPreprocess
    \/ TtsOpen
    \/ TtsLoop
    \/ TtsWrite
    \/ TtsFinally
    \/ TtsClearProcessing

SpecTTS == Init /\ [][NextTTS]_vars

\* watcher, start() and the render thread; synthesized audio of at most one chunk
ShortOpen == tpc = "open" /\ TtsOpen /\ chunks_left' <= 1

Render ==
    \/ TtsGet
    \/ TtsSetProcessing
    \/ TtsPreprocess
    \/ ShortOpen
    \/ TtsLoop
    \/ TtsWrite
    \/ TtsFinally
    \/ TtsClearProcessing

Trigger(c) ==
    \/ TrigClearQueue(c)
    \/ TrigClearFlag(c)
    \/ TrigStreamStart(c)
    \/ TrigNext(c)
    \/ TrigCheck(c)
    \/ TrigPlay(c)
    \/ TrigAfterLoop(c)
    \/ TrigTool(c)
    \/ TrigJoin(c)
    \/ TrigAppend(c)
    \/ TrigFinally(c)

\* the greeting turn of start() when its completion request yields nothing
GreetingFails == Trigger("start") /\ gev'["start"] \in {"none", "end"}

\* stop() placed where it can next make a difference: stop_event is read by the loop
\* test only, so a stop() during any other step of the watcher acts as one right
\* before the next test, or, should the watcher never get there, while it waits in join
StopSeen == (qpc = "test" \/ gpc["watcher"] = "join") /\ Stop

\* inbound messages arriving once the greeting turn is over and while the watcher is
\* polling: q2_queue is read by the poll only, so a message put during the watcher's
\* own turn acts as one put right after it
LateQ2Put == spc = "done" /\ qpc # "trigger" /\ Q2Put

Watcher ==
    \/ WatcherTest
    \/ WatcherBusy
    \/ WatcherEmpty
    \/ WatcherSleep
    \/ WatcherGet
    \/ WatcherFor
    \/ WatcherReturn

NextWatcher ==
    \/ StartThreads
    \/ StartGreet
    \/ StartReturn
    \/ StopSeen
    \/ LateQ2Put
    \/ GreetingFails
    \/ Trigger("watcher")
    \/ Watcher
    \/ Render

SpecWatcher == Init /\ [][NextWatcher]_vars

\* every thread keeps running while it has a step to take; the completion request and
\* the synthesis request always answer
FairSpecWatcher ==
    /\ SpecWatcher
    /\ WF_vars(StartThreads \/ StartGreet \/ StartReturn \/ GreetingFails)
    /\ WF_vars(Watcher)
    /\ WF_vars(Trigger("watcher"))
    /\ WF_vars(Render)


\* barge-in: the greeting turn of start() being spoken, the user starting to speak
\* while an item is rendered and going on speaking, the fast path deciding
BargeFrame ==
    /\ spc # "init"
    /\ ~is_speaking => is_processing_audio
    /\ Voiced(speech_buffer) < MaxVoiced
    /\ listen_and_detect(TRUE)

NextBarge ==
    \/ StartThreads
    \/ StartGreet
    \/ StartReturn
    \/ Trigger("start")
    \/ Render
    \/ BargeFrame
    \/ \E s \in Segs : on_speech_start(s)
    \/ \E s \in Segs : FastSnapshot(s)
    \/ \E s \in Segs : FastClassify(s)
    \/ \E s \in Segs : FastExcept(s)
    \/ \E s \in Segs : FastPut(s)

SpecBarge == Init /\ [][NextBarge]_vars

\* the main loop fed by finalized segments. The assembler and the fast path up to its
\* put are summarised as one input per utterance, once the greeting turn is over (its
\* completion request yielding nothing) and the on_speech_end calls of the utterances
\* before have returned: segment s is handed to on_speech_end while its
\* _fast_decision_thread, having taken one of its paths, is about to put
FastPaths == {"short", "interrupt", "disinterrupt"}

Heard(s) ==
    /\ spc = "done"
    /\ s = nseg + 1
    /\ \A r \in 1..nseg : epc[r] \in {"idle", "done"}
    /\ \A r \in 1..(nseg - 1) : fpc[r] = "done"
    /\ nseg' = s
    /\ epc' = [epc EXCEPT ![s] = "get"]
    /\ fpc' = [fpc EXCEPT ![s] = "finally"]
    /\ \E path \in FastPaths :
         /\ fdecision' = [fdecision EXCEPT ![s] =
                             IF path \in {"short", "disinterrupt"} THEN "ignore"
                             ELSE "process"]
         /\ interrupt_event' = CASE path = "short" -> interrupt_event
                                 [] path = "disinterrupt" -> FALSE
                                 [] OTHER -> TRUE
    /\ UNCHANGED <<chunk, is_speaking, speech_buffer, ring_buffer,
                   silence_chunks_after_speech, fpath, edecision, decision_queue,
                   user_speech_queue, tvars, cvars>>

\* a response turn of the main loop whose completion request yields nothing
ResponseFails == Trigger("main") /\ gev'["main"] \in {"none", "end"}

MainLoop ==
    \/ MainTest
    \/ MainGet
    \/ MainEmpty
    \/ MainTranscribe
    \/ MainGuardClear
    \/ MainGuardPlay
    \/ MainGuardJoin
    \/ MainAppend
    \/ MainReturn
    \/ MainExcept

NextMain ==
    \/ StartThreads
    \/ StartGreet
    \/ StartReturn
    \/ GreetingFails
    \/ \E s \in Segs : Heard(s)
    \/ \E s \in Segs : FastPut(s)
    \/ \E s \in Segs : EndGet(s)
    \/ \E s \in Segs : EndTimeout(s)
    \/ \E s \in Segs : EndPut(s)
    \/ \E s \in Segs : EndDrain(s)
    \/ MainLoop
    \/ ResponseFails
    \/ Render

SpecMain == Init /\ [][NextMain]_vars

\* ======================= claims =======================

\* C1: the Decision that an on_speech_end call consumes for its segment is the one
\* produced by the _fast_decision_thread started at that same segment's onset; a late
\* Decision of an earlier utterance is never the one a later utterance consumes.
C1_DecisionOfOwnSegment ==
    \A s \in Segs :
        edecision[s].val \in {"process", "ignore"} => edecision[s].by = s

\* C2: when no Decision is in the channel at the end of the wait bound, on_speech_end
\* takes the timeout path, puts its segment on user_speech_queue exactly once, and
\* goes on to its final drain.
C2_TimeoutFailsOpen ==
    [][\A s \in Segs :
         /\ (epc[s] = "get" /\ decision_queue = <<>> /\ epc'[s] # "get")
               => /\ edecision'[s] = TimedOut
                  /\ epc'[s] = "put"
         /\ (edecision[s] = TimedOut /\ epc[s] = "put" /\ epc'[s] # "put")
               => /\ user_speech_queue' = Append(user_speech_queue, s)
                  /\ epc'[s] = "drain"
         /\ edecision'[s] = TimedOut
               => CountIn(user_speech_queue', s)
                     = (IF epc'[s] \in {"drain", "done"} THEN 1 ELSE 0)
      ]_vars

C2_Witness ==
    \E s \in Segs :
        /\ edecision[s] = TimedOut
        /\ epc[s] = "done"
        /\ CountIn(user_speech_queue, s) = 1

\* C3: a fast-path thread that is about to deliver while the channel still holds an
\* unconsumed Decision of an earlier segment can deliver at once (it is not blocked),
\* and right after its delivery the channel holds exactly the new Decision.
C3_StaleDrainedOnDelivery ==
    \A s \in Segs :
        (/\ fpc[s] = "finally"
         /\ decision_queue # <<>>
         /\ Head(decision_queue).by < s)
        => ENABLED (/\ FastPut(s)
                    /\ decision_queue' = <<[val |-> fdecision[s], by |-> s]>>)

\* ---- measures on audio used by the claims about the assembler ----
RECURSIVE TrailingSilence(_)
TrailingSilence(frames) ==
    IF frames = <<>> \/ Last(frames).speech THEN 0
    ELSE 1 + TrailingSilence(SubSeq(frames, 1, Len(frames) - 1))

FirstVoiced(frames) ==
    CHOOSE i \in 1..Len(frames) :
        frames[i].speech /\ \A k \in 1..(i - 1) : ~frames[k].speech

Min(a, b) == IF a < b THEN a ELSE b

\* a frame was processed while a segment was open
FrameWhileOpen == is_speaking /\ chunk' # chunk

\* the endpoint step: final_audio is the buffer with the endpoint frame appended
EndpointStep == FrameWhileOpen /\ ~is_speaking'

\* C5: a segment whose voiced duration is below VAD_MIN_SPEECH_DURATION_MS is never
\* handed to on_speech_end at its endpoint.
C5_ShortSegmentDiscarded ==
    [][\A s \in Segs :
         (epc[s] = "idle" /\ epc'[s] = "get")
            => Voiced(Append(speech_buffer, chunk')) * VAD_FRAME_MS
                  >= VAD_MIN_SPEECH_DURATION_MS
      ]_vars

\* C6: a frame read while a segment is open finalizes it if and only if the frame is
\* non-speech and it brings the run of non-speech frames since the last speech frame
\* to 25; a speech frame keeps the segment open and restarts the run at 0.
C6_EndpointIffSilenceRun ==
    [][FrameWhileOpen =>
         /\ ~is_speaking' <=> (/\ ~chunk'.speech
                               /\ TrailingSilence(speech_buffer) + 1 >= 25)
         /\ chunk'.speech => /\ is_speaking'
                             /\ silence_chunks_after_speech' = 0
         /\ is_speaking' => silence_chunks_after_speech' = TrailingSilence(speech_buffer')
      ]_vars

\* 24 silent frames, then a voiced one, and the segment is still open
C6_Witness ==
    /\ is_speaking
    /\ Len(speech_buffer) >= 26
    /\ Last(speech_buffer).speech
    /\ TrailingSilence(SubSeq(speech_buffer, 1, Len(speech_buffer) - 1)) = 24

\* C7: with the onset at frame n after j = n - 1 Idle frames since the ring was last
\* cleared, the finalized audio starts with the last min(j, K) of them, in arrival
\* order and each once, followed by frame n.
PreRollOK(final_audio) ==
    LET o == FirstVoiced(final_audio)
        n == final_audio[o].id
    IN /\ o - 1 = Min(n - 1, RingMaxLen)
       /\ \A i \in 1..o : final_audio[i].id = n - o + i

C7_PreRollKept ==
    [][EndpointStep => PreRollOK(Append(speech_buffer, chunk'))]_vars

\* an open segment about to end whose onset came after more Idle frames than the ring holds
C7_Witness ==
    /\ is_speaking
    /\ EndpointReached(silence_chunks_after_speech + 1)
    /\ speech_buffer[FirstVoiced(speech_buffer)].id > RingMaxLen + 1
    /\ FirstVoiced(speech_buffer) = RingMaxLen + 1

\* C8: on_speech_start is dispatched only on a step that opens a segment while none is
\* open, on_speech_end only on a step that closes the open one, and a segment is open
\* exactly between the two, so opens and closes alternate starting with an open.
C8_OpenCloseAlternate ==
    [][/\ nseg' # nseg => /\ ~is_speaking /\ is_speaking'
                          /\ nseg' = nseg + 1
                          /\ fpc[nseg'] = "idle" /\ fpc'[nseg'] = "spawned"
       /\ is_speaking' # is_speaking => (is_speaking' <=> nseg' = nseg + 1)
       /\ \A s \in Segs : epc'[s] # epc[s] => /\ is_speaking /\ ~is_speaking'
                                              /\ s = nseg
                                              /\ epc[s] = "idle"
       /\ is_speaking' <=> speech_buffer' # <<>>
      ]_vars

\* a second segment open after the first was closed
C8_Witness ==
    /\ nseg = 2
    /\ epc[1] = "get"
    /\ is_speaking

\* the render thread holds a dequeued item it has not yet marked done
InHand(i) ==
    /\ item.id = i
    /\ tpc \in {"set", "preprocess", "open", "loop", "write", "finally"}

\* C4: items removed by clear_queue count as complete for join: a caller blocked in
\* wait_for_completion while the queue is empty and the render thread holds no item
\* has nothing left to wait for (unfinished_tasks is 0, so join returns).
C4_ClearedItemsAccounted ==
    (/\ wpc = "join"
     /\ tts_queue = <<>>
     /\ ~\E i \in Items : InHand(i))
    => unfinished_tasks = 0

\* C9: while the interrupt flag stays set at most one more chunk of the item being
\* rendered is written; the loop test that finds the flag set leaves the loop without
\* writing, and leaving the finally block closes the stream and marks the item done.
C9_StopsWithinOneChunk ==
    [][/\ late_writes' <= 1
       /\ (tpc = "loop" /\ chunks_left > 0 /\ interrupt_event /\ tpc' # "loop")
             => /\ tpc' = "finally"
                /\ chunks_left' = chunks_left
       /\ (tpc = "finally" /\ tpc' # "finally")
             => /\ stream' # "open"
                /\ hist'[item.id].done = hist[item.id].done + 1
      ]_vars

\* an item cancelled with audio left, one chunk written after the flag was set
C9_Witness ==
    /\ texit = "break"
    /\ tpc = "clear"
    /\ late_writes = 1
    /\ chunks_left > 0
    /\ stream = "closed"
    /\ hist[item.id].done = 1

\* C10: every dequeued item is marked done exactly once when the render thread is
\* through with it, whichever way it left (end of stream, cancellation, error, text
\* empty after preprocessing), and once every enqueued item has been dequeued and
\* marked done nothing is unfinished, so wait_for_completion returns.
C10_EveryExitMarksDone ==
    /\ \A i \in Items :
          /\ hist[i].done <= 1
          /\ hist[i].done = 1 <=> (hist[i].deq /\ ~InHand(i))
    /\ (\A i \in 1..nitems : hist[i].deq /\ hist[i].done = 1)
          => /\ unfinished_tasks = 0
             /\ wpc = "join" => ENABLED WaitReturn

\* the last item was cancelled and a waiter in join is free to return
C10_Witness ==
    /\ texit = "break"
    /\ nitems >= 2
    /\ \A i \in 1..nitems : hist[i].deq /\ hist[i].done = 1
    /\ item.id = nitems
    /\ wpc = "join"
    /\ ENABLED WaitReturn

\* ---- the ways through the fast path ----
IgnorePaths == {"short", "empty", "disinterrupt"}
ErrorPaths == {"stt_error", "llm_error"}

\* thread s leaves its try block (by return, fall-through or the except clause)
EntersFinally(s) == fpc[s] # "finally" /\ fpc'[s] = "finally"

\* thread s delivers: its put on the decision queue returns
Delivers(s) == fpc[s] = "finally" /\ fpc'[s] = "done"

\* C13: on_speech_end routes its segment by the Decision it read: on process it puts
\* the segment on user_speech_queue exactly once; on ignore it puts nothing and none
\* of its steps changes the interrupt flag, the TTS queue or the item being rendered.
C13_RoutedByDecision ==
    [][\A s \in Segs :
         /\ (epc[s] = "get" /\ epc'[s] # "get" /\ edecision'[s].val = "process")
               => epc'[s] = "put"
         /\ (epc[s] = "get" /\ epc'[s] # "get" /\ edecision'[s].val = "ignore")
               => epc'[s] = "drain"
         /\ (edecision'[s].val = "ignore" /\ epc'[s] # epc[s])
               => UNCHANGED <<user_speech_queue, interrupt_event, tvars>>
         /\ edecision'[s].val = "ignore" => CountIn(user_speech_queue', s) = 0
         /\ edecision'[s].val = "process"
               => CountIn(user_speech_queue', s)
                     = (IF epc'[s] \in {"drain", "done"} THEN 1 ELSE 0)
      ]_vars

\* one segment ended on ignore, the other on process, and only the latter was forwarded
C13_Witness ==
    \E s, r \in Segs :
        /\ edecision[s].val = "ignore" /\ epc[s] = "done"
        /\ edecision[r].val = "process" /\ epc[r] = "done"
        /\ user_speech_queue = <<r>>

\* C14: the Decision follows the classification policy: a snapshot under 2048 bytes
\* gives ignore; otherwise an empty transcript gives ignore; otherwise the answer
\* interrupt gives process and sets the interrupt flag, the answer disinterrupt gives
\* ignore; no ignore case sets the flag, and the Decision delivered is the one chosen.
C14_ClassificationPolicy ==
    [][\A s \in Segs :
         /\ (fpc[s] = "sleep" /\ fpc'[s] # "sleep")
               => IF Len(speech_buffer) * FrameBytes < 2048
                  THEN fpath'[s] = "short"
                  ELSE fpath'[s] \in {"empty", "words", "stt_error"}
         /\ (fpc[s] = "classify" /\ fpc'[s] # "classify")
               => fpath'[s] \in {"interrupt", "disinterrupt", "llm_error"}
         /\ (EntersFinally(s) /\ fpath'[s] \in IgnorePaths)
               => /\ fdecision'[s] = "ignore"
                  /\ interrupt_event' => interrupt_event
         /\ (EntersFinally(s) /\ fpath'[s] = "interrupt")
               => /\ fdecision'[s] = "process"
                  /\ interrupt_event'
         /\ Delivers(s)
               => /\ Last(decision_queue') = [val |-> fdecision[s], by |-> s]
                  /\ fpath[s] \in IgnorePaths => fdecision[s] = "ignore"
                  /\ fpath[s] = "interrupt" => fdecision[s] = "process"
      ]_vars

\* a second thread's transcript went to the classifier, which answered interrupt
C14_Witness ==
    \E s \in Segs :
        /\ fpc[s] = "finally"
        /\ fpath[s] = "interrupt"
        /\ fdecision[s] = "process"
        /\ interrupt_event
        /\ \E r \in Segs : fpc[r] = "done" /\ r # s

\* C15: when a step of the fast path raises, the except clause chooses process and
\* sets the interrupt flag, and the thread goes on to deliver that Decision: an error
\* never ends in ignore and never ends the thread without a Decision.
C15_ErrorDefaultsToProcess ==
    [][\A s \in Segs :
         /\ fpath'[s] \in ErrorPaths => fpc'[s] \in {"except", "finally"}
         /\ (fpc[s] = "except" /\ fpc'[s] # "except")
               => /\ fpc'[s] = "finally"
                  /\ fdecision'[s] = "process"
                  /\ interrupt_event'
         /\ (fpath[s] \in ErrorPaths /\ fpc[s] = "finally" /\ fpc'[s] # "finally")
               => /\ fpc'[s] = "done"
                  /\ Last(decision_queue') = [val |-> "process", by |-> s]
      ]_vars

\* the classifier call raised and the thread is about to deliver process
C15_Witness ==
    \E s \in Segs :
        /\ fpath[s] = "llm_error"
        /\ fpc[s] = "finally"
        /\ fdecision[s] = "process"
        /\ interrupt_event

\* C16: a transcription call that fails inside the fast path counts as an empty
\* transcript: the Decision delivered for that invocation is ignore.
C16_TranscriptionFailureIgnored ==
    [][\A s \in Segs :
         (fpath[s] = "stt_error" /\ Delivers(s)) => Last(decision_queue').val = "ignore"
      ]_vars

\* ---- the watcher's view of the inbound messages ----
\* the messages of the history entries that carry the automation prefix, in order
AgentEntries(history) ==
    LET es == SelectSeq(history,
                        LAMBDA e : /\ e.role = "user"
                                   /\ Len(e.content) = 2
                                   /\ e.content[1] = "[FROM_COMPUTER_AGENT] ")
    IN [i \in 1..Len(es) |-> es[i].content[2]]

\* the watcher enters _trigger_large_llm
WatcherCalls == gpc["watcher"] = "idle" /\ gpc'["watcher"] # "idle"

C18_BatchAppendedInOrder ==
    [][/\ (qpc = "get" /\ qpc' # "get")
             => /\ q2_queue # <<>>
                /\ messages' = q2_queue
                /\ q2_queue' = <<>>
       /\ (qpc = "for" /\ messages # <<>> /\ messages' # messages)
             => conversation_history' =
                    Append(conversation_history,
                           [role |-> "user",
                            content |-> <<"[FROM_COMPUTER_AGENT] ", Head(messages)>>])
       /\ AgentEntries(conversation_history') \o messages' \o q2_queue'
             = [i \in 1..nmsgs' |-> i]
       /\ WatcherCalls => /\ qpc = "for" /\ messages = <<>>
                          /\ ncalls = 0 /\ ncalls' = 1
       /\ (qpc = "trigger" /\ qpc' # "trigger") => ncalls = 1
      ]_vars

\* a batch of two: the first message appended, the second still in hand
C18_Witness ==
    /\ qpc = "for"
    /\ AgentEntries(conversation_history) = <<1>>
    /\ messages = <<2>>

\* C19: once stop_event is set the watcher's loop ends.
C19_StopEndsWatcher == stop_event ~> (qpc = "done")

\* C20: at most one dequeued item is not yet marked done, an output stream is open
\* only while the render thread holds an item, and the next item is dequeued only
\* after the stream of the previous one was closed and the previous one marked done.
C20_OneItemAtATime ==
    [][/\ Cardinality({i \in Items : hist'[i].deq /\ hist'[i].done = 0}) <= 1
       /\ stream' = "open" => tpc' \in {"loop", "write", "finally"}
       /\ item' # item
             => /\ stream # "open"
                /\ \A i \in Items : hist[i].deq => hist[i].done = 1
      ]_vars

\* the second item is being written after the first was closed and marked done
C20_Witness ==
    /\ item.id = 2
    /\ tpc = "write"
    /\ stream = "open"
    /\ hist[1].deq /\ hist[1].done = 1

\* C11: when speech starts while an item is being rendered the interrupt flag is set
\* at that onset: by the time the frame after the onset frame is processed, with the
\* item still being written, the flag is set (it does not wait for the fast-check
\* window and the classification).
C11_InterruptAtOnset ==
    [][(/\ is_speaking
        /\ Len(speech_buffer) = 1
        /\ chunk' # chunk
        /\ tpc \in {"loop", "write"})
       => interrupt_event
      ]_vars

\* C12: the interrupt flag is cleared only by the step at the start of
\* _trigger_large_llm (no step of the fast path and no end of a response clears it),
\* and it is not set when a turn has completed.
C12_ClearedOnlyAtTurnStart ==
    [][/\ (interrupt_event /\ ~interrupt_event')
             => \E c \in Callers : gpc[c] = "clear_flag" /\ gpc'[c] = "next"
       /\ \A c \in Callers :
             (gpc[c] # "returned" /\ gpc'[c] = "returned") => ~interrupt_event'
      ]_vars

\* C21: a failure of synthesis or output aborts only the item being rendered: the
\* failing step leaves the queue as it was and goes to the finally block, which marks
\* the item done and clears the active-render flag, and the render thread is then back
\* at the dequeue, free to take the next queued item.
C21_ErrorAbortsOneItem ==
    /\ [](texit = "error" /\ tpc = "get"
            => /\ ~is_processing_audio
               /\ hist[item.id].done = 1
               /\ (tts_queue # <<>> => ENABLED TtsGet))
    /\ [][/\ (texit # "error" /\ texit' = "error")
                 => /\ tpc' = "finally"
                    /\ tts_queue' = tts_queue
                    /\ item' = item
          /\ (texit = "error" /\ tpc \in {"finally", "clear"} /\ tpc' # tpc)
                 => /\ tts_queue' = tts_queue
                    /\ tpc' = IF tpc = "finally" THEN "clear" ELSE "get"
          ]_vars

\* the first item failed mid-stream, is marked done, and the second waits in the queue
C21_Witness ==
    /\ texit = "error"
    /\ tpc = "get"
    /\ stream = "closed"
    /\ item.id = 1
    /\ hist[1].done = 1
    /\ tts_queue # <<>>
    /\ Head(tts_queue).id = 2
    /\ ENABLED TtsGet

\* a step of the ingestion loop that read no frame although the assembler held
\* something: the except block of listen_and_detect
FramelessStep ==
    /\ chunk' = chunk
    /\ is_speaking \/ speech_buffer # <<>> \/ ring_buffer # <<>>

\* C25: an exception while a frame is processed leaves the assembler Idle with
\* speech_buffer and ring_buffer empty, dispatches neither callback (the open segment
\* is abandoned without on_speech_end), and the loop goes on: the next frame can be
\* read, and a segment opened afterwards starts from its own onset frame with the
\* silence run at 0, nothing of the abandoned segment in it.
C25_ExceptionResetsAssembler ==
    /\ [](~is_speaking => /\ speech_buffer = <<>>
                          /\ ENABLED listen_and_detect(FALSE))
    /\ [][/\ FramelessStep
                 => /\ ~is_speaking'
                    /\ speech_buffer' = <<>>
                    /\ ring_buffer' = <<>>
                    /\ nseg' = nseg
                    /\ fpc' = fpc
                    /\ epc' = epc
          /\ (~is_speaking /\ is_speaking')
                 => /\ speech_buffer' = Append(ring_buffer, chunk')
                    /\ chunk'.speech
                    /\ silence_chunks_after_speech' = 0
          ]_vars

\* a segment abandoned during its trailing silence: Idle, both buffers empty, no
\* on_speech_end for it (only the except block leaves the silence count above 0 in Idle)
C25_Witness ==
    /\ ~is_speaking
    /\ speech_buffer = <<>>
    /\ ring_buffer = <<>>
    /\ silence_chunks_after_speech > 0
    /\ nseg = 1
    /\ epc[1] = "idle"

\* the frames of a sequence carry consecutive arrival numbers
Consecutive(frames) ==
    \A i \in 1..(Len(frames) - 1) : frames[i + 1].id = frames[i].id + 1

\* C29: the audio handed to on_speech_end is the pre-roll followed by every frame read
\* from the onset frame through the endpoint frame, voiced or not, each once and in
\* arrival order: every frame read while the segment is open is appended to the
\* buffer, and the finalized audio runs without a gap up to the endpoint frame.
C29_SegmentKeepsEveryFrame ==
    [][/\ (~is_speaking /\ is_speaking')
             => speech_buffer' = Append(ring_buffer, chunk')
       /\ (FrameWhileOpen /\ is_speaking')
             => speech_buffer' = Append(speech_buffer, chunk')
       /\ \A s \in Segs :
             (epc[s] = "idle" /\ epc'[s] = "get")
                => LET final_audio == Append(speech_buffer, chunk')
                       o == FirstVoiced(final_audio)
                   IN /\ Consecutive(final_audio)
                      /\ Last(final_audio) = chunk'
                      /\ TrailingSilence(final_audio) = 25
                      /\ Len(final_audio) - o + 1
                            = chunk'.id - final_audio[o].id + 1
      ]_vars

\* a segment with pre-roll, two voiced frames apart and its trailing silence was
\* handed to on_speech_end at the endpoint frame
C29_Witness ==
    /\ epc[1] = "get"
    /\ ~is_speaking
    /\ ~chunk.speech
    /\ chunk.id > RingMaxLen + 2 + 25

\* C30: the ring buffer never holds more than RingMaxLen frames and is empty whenever
\* a segment is open; it grows only by a frame read while Idle that leaves the
\* assembler Idle, and a frame arriving at a full ring pushes the oldest one out.
C30_RingBounded ==
    /\ [](/\ Len(ring_buffer) <= RingMaxLen
          /\ is_speaking => ring_buffer = <<>>)
    /\ [][(ring_buffer' # ring_buffer /\ ring_buffer' # <<>>)
             => /\ ~is_speaking /\ ~is_speaking'
                /\ ring_buffer' =
                      IF Len(ring_buffer) < 5 THEN Append(ring_buffer, chunk')
                      ELSE Append(Tail(ring_buffer), chunk')
          ]_vars

\* a full ring in Idle whose first frame has been pushed out
C30_Witness ==
    /\ ~is_speaking
    /\ Len(ring_buffer) = RingMaxLen
    /\ ring_buffer[1].id = 2
    /\ chunk = Last(ring_buffer)

\* C26: a fast-path thread ends only by its one put of a Decision (process or ignore),
\* whichever path it took, and does nothing after it; a thread at its put can place
\* the Decision as soon as the channel is empty; the channel never holds more than one
\* Decision, and no placed Decision is received by two on_speech_end calls or is
\* still in the channel after one received it.
C26_OneDecisionPerInvocation ==
    /\ [](/\ Len(decision_queue) <= 1
          /\ \A s \in Segs :
                /\ (fpc[s] = "finally" /\ decision_queue = <<>>) => ENABLED FastPut(s)
                /\ edecision[s].by # 0
                      => /\ \A r \in Segs \ {s} : edecision[r].by # edecision[s].by
                         /\ \A i \in 1..Len(decision_queue) :
                               decision_queue[i].by # edecision[s].by)
    /\ [][/\ \A s \in Segs :
                /\ fpc[s] = "done" => fpc'[s] = "done"
                /\ (fpc[s] # "done" /\ fpc'[s] = "done")
                      => /\ fpc[s] = "finally"
                         /\ fdecision[s] \in {"process", "ignore"}
                         /\ decision_queue' =
                               Append(decision_queue, [val |-> fdecision[s], by |-> s])
                /\ (fpc[s] \in {"sleep", "classify", "except"} /\ fpc'[s] # fpc[s])
                      => fpc'[s] \in {"classify", "except", "finally"}
          /\ Len(decision_queue') > Len(decision_queue)
                => \E s \in Segs : fpc[s] = "finally" /\ fpc'[s] = "done"
          ]_vars

\* both threads have ended, each Decision was received by one on_speech_end call
C26_Witness ==
    /\ fpc[1] = "done" /\ fpc[2] = "done"
    /\ {edecision[1].by, edecision[2].by} = {1, 2}
    /\ decision_queue = <<>>

MarkerTurn == mpc \in {"guard_clear", "guard_play", "guard_join", "append", "trigger"}
              /\ HasMarker(user_text)

\* C22: a transcript with the disallowed marker short-circuits the turn: from the
\* transcription to the next iteration of the loop the main loop only clears the
\* flag, enqueues the scripted sentence for playback and waits for it; it appends
\* nothing to conversation_history and never enters _trigger_large_llm.
C22_MarkerShortCircuits ==
    [][/\ (mpc = "transcribe" /\ mpc' # mpc /\ HasMarker(user_text'))
             => /\ mpc' = "guard_clear"
                /\ conversation_history' = conversation_history
       /\ MarkerTurn
             => /\ mpc \in {"guard_clear", "guard_play", "guard_join"}
                /\ gpc["main"] = "idle" /\ gpc'["main"] = "idle"
                /\ conversation_history' = conversation_history
                /\ mpc' # mpc
                      => mpc' = CASE mpc = "guard_clear" -> "guard_play"
                                  [] mpc = "guard_play" -> "guard_join"
                                  [] OTHER -> "test"
                /\ (mpc = "guard_play" /\ mpc' # mpc)
                      => /\ tts_queue' =
                               Append(tts_queue, [id |-> nitems + 1, text |-> "speech"])
                         /\ unfinished_tasks' = unfinished_tasks + 1
      ]_vars

\* the scripted sentence for the first segment was rendered, the guardrail is about to
\* return, and the history holds the system prompt and the greeting request only
C22_Witness ==
    /\ mpc = "guard_join"
    /\ HasMarker(user_text)
    /\ audio_data = 1
    /\ hist[1].deq /\ hist[1].done = 1
    /\ texit = "end"
    /\ unfinished_tasks = 0
    /\ Len(conversation_history) = 2

\* the transcript of segment s was appended to the history
Appended(s) ==
    \E i \in 1..Len(conversation_history) :
        conversation_history[i] = [role |-> "user", content |-> UserTurn(s)]

\* C23: a transcription that fails skips the turn and nothing else: the step that
\* raises and the except block append nothing and do not enter _trigger_large_llm,
\* the loop goes back to its test (it ends only on stop_event), and from there a
\* segment waiting on user_speech_queue can be taken.
C23_TranscriptionFailureSkipsTurn ==
    /\ [](/\ mpc = "done" => stop_event
          /\ (mpc = "test" /\ ~stop_event) => ENABLED MainTest
          /\ (mpc = "get" /\ user_speech_queue # <<>>)
                => ENABLED (MainGet /\ audio_data' = Head(user_speech_queue)))
    /\ [][/\ (mpc = "transcribe" /\ mpc' = "except")
                 => /\ conversation_history' = conversation_history
                    /\ gpc'["main"] = "idle"
          /\ mpc = "except"
                 => /\ conversation_history' = conversation_history
                    /\ gpc'["main"] = "idle"
                    /\ mpc' \in {"except", "test"}
          ]_vars

\* the second segment is in its response turn after the transcription of the first
\* one failed: the first was forwarded and taken, no scripted sentence was ever
\* enqueued, and its transcript is not in the history
C23_Witness ==
    /\ mpc = "trigger"
    /\ audio_data = 2
    /\ epc[1] = "done"
    /\ edecision[1].val \in {"process", "timeout"}
    /\ nitems = 0
    /\ ~Appended(1)
    /\ Appended(2)

\* C24: user_speech_queue changes only by a segment appended at its end or by the
\* main loop taking its head, which the main loop does only between turns (no
\* response turn of its own in progress), so segments are processed one at a time in
\* the order of their puts; and on_speech_end never comes to its put with an ignore
\* Decision, so a segment whose Decision was ignore is never queued, taken or appended.
C24_FifoAndIgnoredNeverQueued ==
    /\ [](\A s \in Segs :
             edecision[s].val = "ignore"
                => /\ epc[s] # "put"
                   /\ CountIn(user_speech_queue, s) = 0
                   /\ audio_data # s
                   /\ ~Appended(s))
    /\ [][/\ user_speech_queue' # user_speech_queue
                 => \/ \E s \in Segs :
                         /\ epc[s] = "put"
                         /\ edecision[s].val \in {"process", "timeout"}
                         /\ user_speech_queue' = Append(user_speech_queue, s)
                         /\ audio_data' = audio_data
                    \/ /\ user_speech_queue # <<>>
                       /\ user_speech_queue' = Tail(user_speech_queue)
                       /\ audio_data' = Head(user_speech_queue)
                       /\ mpc = "get"
                       /\ gpc["main"] = "idle"
          /\ (audio_data' # audio_data /\ audio_data' # 0)
                 => user_speech_queue' # user_speech_queue
          ]_vars

\* both segments were waiting and the main loop took the one put first
C24_Witness ==
    /\ mpc = "transcribe"
    /\ audio_data = 1
    /\ user_speech_queue = <<2>>
    /\ ~Appended(1) /\ ~Appended(2)

\* C28: the response loop tests the interrupt flag on every element it has pulled
\* from the stream before acting on it: with the flag set it leaves the loop without
\* enqueuing the element and with the stream left suspended, never to be pulled
\* again (a stream changes state only by a pull at the head of the loop, at the end
\* of the call, or by the call made for a tool result creating its own); a sentence is enqueued only after a test that found the flag
\* clear, and each enqueue is followed by a new pull and test. So once the flag is
\* set and stays set, at most the one sentence whose test had already passed is
\* still enqueued and the rest of the stream is not consumed.
C28_ConsumerStopsOnInterrupt ==
    [][/\ \A c \in Callers :
            /\ (gpc[c] = "check" /\ interrupt_event /\ gpc'[c] # "check")
                  => /\ gpc'[c] = "after_loop"
                     /\ ggen'[c] = "suspended"
                     /\ tts_queue' = tts_queue
                     /\ gtool'[c] = gtool[c]
            /\ (gpc[c] # "play" /\ gpc'[c] = "play")
                  => gpc[c] = "check" /\ ~interrupt_event
            /\ (gpc[c] = "play" /\ gpc'[c] # "play")
                  => gpc'[c] = "next" /\ nitems' = nitems + 1
            /\ gpc[c] \in {"after_loop", "join", "append"}
                  => /\ gpc'[c] \in {"after_loop", "tool", "join", "append", "finally"}
                     /\ ggen'[c] = ggen[c]
            /\ (ggen[c] = "suspended" /\ ggen'[c] # "suspended")
                  => gpc[c] \in {"next", "finally", "clear_flag"}
       /\ nitems' # nitems
            => \E c \in Callers : gpc[c] = "play" /\ gpc'[c] = "next"
      ]_vars

\* the greeting was cut: after a sentence was enqueued the next one was pulled and
\* dropped on the flag test, the stream left suspended behind the loop
C28_Witness ==
    /\ gpc["start"] = "after_loop"
    /\ interrupt_event
    /\ ggen["start"] = "suspended"
    /\ gev["start"] = "speech"
    /\ gtext["start"]
    /\ nitems = 1

\* C31: a step that takes items off the queue without handing one to the render
\* thread (clear_queue) takes all pending items and nothing else: the item being
\* rendered, its stream and its remaining chunks are as before, so with the flag
\* clear the render thread goes on writing them; an item in the queue afterwards was
\* enqueued after the clear and stays until the render thread takes it.
C31_ClearLeavesCurrentItem ==
    /\ [](/\ (tpc = "loop" /\ chunks_left > 0 /\ ~interrupt_event)
                => ENABLED (TtsLoop /\ tpc' = "write")
          /\ tpc = "write" => ENABLED (TtsWrite /\ chunks_left' = chunks_left - 1))
    /\ [][(Len(tts_queue') < Len(tts_queue) /\ item' = item)
             => /\ tts_queue' = <<>>
                /\ UNCHANGED <<is_processing_audio, tpc, chunks_left, stream, texit, hist,
                               nitems>>
          ]_vars

\* the first item is still being written, flag clear, after the two items enqueued
\* behind it were cleared without ever being dequeued
C31_Witness ==
    /\ tpc = "write"
    /\ item.id = 1
    /\ ~interrupt_event
    /\ nitems = 3
    /\ tts_queue = <<>>
    /\ ~hist[2].deq /\ ~hist[3].deq

\* C38: whenever the queue is empty and the render thread holds no item (it is at its
\* get), is_speaking() is false, also after an item that was empty after
\* preprocessing was skipped.
C38_IdleMeansNotSpeaking ==
    (tts_queue = <<>> /\ tpc = "get") => ~tts_is_speaking

\* C36: forwarded segments are on user_speech_queue in the order of their endpoints
\* (segments are numbered in the order they are opened, hence endpointed).
C36_ForwardedInEndpointOrder ==
    \A i, j \in 1..Len(user_speech_queue) :
        i < j => user_speech_queue[i] < user_speech_queue[j]

\* C35: the snapshot a fast-path thread reads holds frames of its own segment only
\* and at least its onset frame: when thread s takes its snapshot segment s is the
\* open one, also when the segment ended or a later one was opened during the
\* fast-check window; so no thread decides ignore on a snapshot that is short only
\* because its segment is over.
C35_SnapshotOfOwnSegment ==
    [][\A s \in Segs :
         (fpc[s] = "sleep" /\ fpc'[s] # "sleep")
            => /\ is_speaking
               /\ nseg = s
               /\ speech_buffer # <<>>
      ]_vars

\* the fast check of segment s has been started and has not yet made its decision
FastCheckInProgress(s) == fpc[s] \in {"spawned", "sleep", "classify", "except"}

\* C32: at an endpoint reached while the fast check of the open segment is still in
\* progress the loop first waits for it: the step that processes the endpoint frame
\* does not itself finalize the segment (reset the assembler, discard or dispatch
\* on_speech_end); that comes after the wait.
C32_FinalizeWaitsForFastCheck ==
    [][(/\ FrameWhileOpen
        /\ ~chunk'.speech
        /\ EndpointReached(silence_chunks_after_speech + 1)
        /\ FastCheckInProgress(nseg))
          => /\ is_speaking'
             /\ epc' = epc
      ]_vars

\* ---- src/tts_handler.py: the handler with a draining render loop ----
\* (is_processing_tts is held in is_processing_audio; this handler has no clear_queue)

\* text, interrupt_event = self.tts_queue.get(timeout=0.1); self.is_processing_tts.set()
DrainGet ==
    /\ tpc = "get"
    /\ tts_queue # <<>>
    /\ item' = Head(tts_queue)
    /\ tts_queue' = Tail(tts_queue)
    /\ hist' = [hist EXCEPT ![Head(tts_queue).id].deq = TRUE]
    /\ is_processing_audio' = TRUE
    /\ late_writes' = 0
    /\ texit' = "none"
    /\ tpc' = "preprocess"
    /\ UNCHANGED <<agentvars, cvars, interrupt_event, unfinished_tasks, chunks_left, stream,
                   nitems, wpc>>

\* text empty after preprocessing: is_processing_tts.clear(), task_done(), continue
DrainPreprocess ==
    /\ tpc = "preprocess"
    /\ IF IsBlank(preprocess_sentence(item.text))
       THEN /\ is_processing_audio' = FALSE
            /\ unfinished_tasks' = TaskDone(unfinished_tasks)
            /\ hist' = [hist EXCEPT ![item.id].done = @ + 1]
            /\ texit' = "skipped"
            /\ tpc' = "get"
            /\ UNCHANGED stream
       ELSE /\ tpc' = "open"
            /\ stream' = "none"
            /\ UNCHANGED <<unfinished_tasks, hist, texit, is_processing_audio>>
    /\ UNCHANGED <<agentvars, cvars, interrupt_event, tts_queue, item, chunks_left, nitems,
                   wpc, late_writes>>

\* for chunk in response.iter_bytes(chunk_size=1024): if interrupt_event.is_set(): drain
DrainLoop ==
    /\ tpc = "loop"
    /\ IF chunks_left = 0
       THEN /\ texit' = "end"
            /\ tpc' = "finally"
       ELSE \/ /\ texit' = "error"
               /\ tpc' = "finally"
            \/ IF InterruptSeen(interrupt_event)
               THEN /\ tpc' = "drain"
                    /\ UNCHANGED texit
               ELSE /\ tpc' = "write"
                    /\ UNCHANGED texit
    /\ UNCHANGED <<agentvars, cvars, interrupt_event, tts_queue, unfinished_tasks,
                   is_processing_audio, item, chunks_left, stream, nitems, wpc, hist,
                   late_writes>>

\* (mutant) the drain dropping pending items without task_done(), as the direct
\* clear the source's comment warns against
DrainPending_no_task_done ==
    /\ tpc = "drain"
    /\ IF tts_queue = <<>>
       THEN /\ texit' = "break"
            /\ tpc' = "finally"
            /\ UNCHANGED <<tts_queue, unfinished_tasks, hist>>
       ELSE /\ tts_queue' = Tail(tts_queue)
            /\ hist' = [hist EXCEPT ![Head(tts_queue).id].deq = TRUE]
            /\ UNCHANGED <<tpc, texit, unfinished_tasks>>
    /\ UNCHANGED <<agentvars, cvars, interrupt_event, is_processing_audio, item, chunks_left,
                   stream, nitems, wpc, late_writes>>

\* while not self.tts_queue.empty(): get_nowait(); task_done()   then break.
\* One iteration per step: both calls are the render thread's own, and a put or a
\* join in between sees the same as before the get_nowait.
DrainPending ==
    /\ tpc = "drain"
    /\ IF tts_queue = <<>>
       THEN /\ texit' = "break"
            /\ tpc' = "finally"
            /\ UNCHANGED <<tts_queue, unfinished_tasks, hist>>
       ELSE /\ tts_queue' = Tail(tts_queue)
            /\ unfinished_tasks' = TaskDone(unfinished_tasks)
            /\ hist' = [hist EXCEPT ![Head(tts_queue).id] =
                                       [deq |-> TRUE, done |-> @.done + 1]]
            /\ UNCHANGED <<tpc, texit>>
    /\ UNCHANGED <<agentvars, cvars, interrupt_event, is_processing_audio, item, chunks_left,
                   stream, nitems, wpc, late_writes>>

\* finally: close the stream if it was opened, self.is_processing_tts.clear()
DrainFinally ==
    /\ tpc = "finally"
    /\ stream' = IF stream = "open" THEN "closed" ELSE stream
    /\ is_processing_audio' = FALSE
    /\ tpc' = "task_done"
    /\ UNCHANGED <<agentvars, cvars, interrupt_event, tts_queue, unfinished_tasks, item,
                   chunks_left, texit, nitems, wpc, hist, late_writes>>

\* self.tts_queue.task_done() for the current item, then the next iteration
DrainTaskDone ==
    /\ tpc = "task_done"
    /\ unfinished_tasks' = TaskDone(unfinished_tasks)
    /\ hist' = [hist EXCEPT ![item.id].done = @ + 1]
    /\ tpc' = "get"
    /\ UNCHANGED <<agentvars, cvars, interrupt_event, tts_queue, is_processing_audio, item,
                   chunks_left, stream, texit, nitems, wpc, late_writes>>

NextDrain ==
    \/ CallPlay
    \/ WaitBegin
    \/ WaitReturn
    \/ SetInterrupt
    \/ ClearInterrupt
    \/ DrainGet
    \/ DrainPreprocess
    \/ TtsOpen
    \/ DrainLoop
    \/ TtsWrite
    \/ DrainPending
    \/ DrainFinally
    \/ DrainTaskDone

SpecDrain == Init /\ [][NextDrain]_vars

\* C33: in the draining handler, task_done is never called more often than items were
\* enqueued (no item is marked done twice, the count of unfinished tasks never goes
\* below zero), and whenever the render loop is back at its get every item it took
\* from the queue, rendered or discarded by the drain, has been marked done exactly
\* once and the unfinished count equals the number of items still queued: a
\* wait_for_completion() is never left waiting on discarded items.
C33_DrainMarksEveryItemDone ==
    /\ unfinished_tasks >= 0
    /\ \A i \in Items : hist[i].done <= (IF hist[i].deq THEN 1 ELSE 0)
    /\ tpc = "get" => /\ unfinished_tasks = Len(tts_queue)
                      /\ \A i \in Items : hist[i].deq => hist[i].done = 1

\* the interrupt was seen while the first item played, the two pending items were
\* drained and marked done, and nothing is left for wait_for_completion() to wait on
C33_Witness ==
    /\ tpc = "get"
    /\ texit = "break"
    /\ item.id = 1
    /\ nitems = 3
    /\ \A i \in Items : hist[i].deq /\ hist[i].done = 1
    /\ unfinished_tasks = 0
    /\ tts_queue = <<>>

\* ---- src/audio_handler.py: the AudioHandler that puts segments on an output queue ----
\* (silence_samples_after_speech is held in silence_chunks_after_speech, in samples;
\* output_queue in user_speech_queue, a segment standing for its audio)
ring_buffer_size == 15
max_silence_samples == (VAD_MAX_SILENCE_DURATION_MS * VAD_SAMPLING_RATE) \div 1000

\* collections.deque(maxlen=self.ring_buffer_size).append
QueueRingAppend(ring, c) ==
    IF Len(ring) < ring_buffer_size THEN Append(ring, c)
    ELSE Append(Tail(ring), c)

\* listen_and_detect(is_agent_busy): one iteration on a frame; the frame goes to the
\* segment or to the ring before it is scored
QueueListen(is_speech, busy) ==
    LET c == [id |-> NextId, speech |-> is_speech]
        buf == IF is_speaking THEN Append(speech_buffer, c) ELSE speech_buffer
        ring == IF is_speaking THEN ring_buffer ELSE QueueRingAppend(ring_buffer, c) IN
    /\ chunk' = c
    /\ IF is_speech /\ ~is_speaking
       THEN /\ nseg < MaxSegs
            /\ is_speaking' = TRUE
            /\ nseg' = nseg + 1
            /\ interrupt_event' = (interrupt_event \/ busy)
            /\ speech_buffer' = buf \o ring
            /\ ring_buffer' = <<>>
            /\ silence_chunks_after_speech' = 0
            /\ UNCHANGED user_speech_queue
       ELSE IF ~is_speech /\ is_speaking
            THEN LET sil == silence_chunks_after_speech + AUDIO_CHUNK_SIZE IN
                 /\ silence_chunks_after_speech' = sil
                 /\ IF sil >= max_silence_samples
                    THEN /\ user_speech_queue' =
                               IF ByteLen(buf) >= min_speech_duration_samples * 2
                               THEN Append(user_speech_queue, nseg)
                               ELSE user_speech_queue
                         /\ is_speaking' = FALSE
                         /\ speech_buffer' = <<>>
                    ELSE /\ speech_buffer' = buf
                         /\ UNCHANGED <<is_speaking, user_speech_queue>>
                 /\ ring_buffer' = ring
                 /\ UNCHANGED <<nseg, interrupt_event>>
            ELSE /\ speech_buffer' = buf
                 /\ ring_buffer' = ring
                 /\ UNCHANGED <<is_speaking, silence_chunks_after_speech, nseg,
                                interrupt_event, user_speech_queue>>
    /\ UNCHANGED <<fvars, evars, decision_queue, tvars, cvars>>

\* any idle run up to MaxIdle, up to MaxVoiced voiced frames per segment, speech
\* resuming after a silent gap of any length
QueueInput(is_speech) ==
    IF is_speaking
    THEN is_speech => Voiced(speech_buffer) < MaxVoiced
    ELSE ~is_speech => NextId <= MaxIdle

QueueFrame ==
    \E is_speech, busy \in BOOLEAN :
        /\ busy => (is_speech /\ ~is_speaking)
        /\ QueueInput(is_speech)
        /\ QueueListen(is_speech, busy)

\* the consumer of output_queue: audio_data = self.user_speech_queue.get(...)
QueueTake ==
    /\ user_speech_queue # <<>>
    /\ user_speech_queue' = Tail(user_speech_queue)
    /\ UNCHANGED <<avars, fvars, evars, decision_queue, interrupt_event, tvars, cvars>>

NextQueue == QueueFrame \/ QueueTake \/ ClearInterrupt

SpecQueue == Init /\ [][NextQueue]_vars

\* C34: in the handler with an output queue a segment is ended only by a contiguous
\* run of silent frames of at least max_silence_samples: at the step that closes the
\* segment, the silent frames at the end of the segment, the closing frame included,
\* total at least max_silence_samples.
C34_EndedByContiguousSilence ==
    [][(is_speaking /\ ~is_speaking')
          => TrailingSilence(Append(speech_buffer, chunk')) * AUDIO_CHUNK_SIZE
                >= max_silence_samples
      ]_vars

\* a call of _trigger_large_llm is in progress on thread c
Responding(c) == gpc[c] \notin {"idle", "returned"}

\* C40: an interrupted response has no lasting effect: in a state where the interrupt
\* flag is set while a response is being generated or played, the next step neither
\* places a message on the outbound queue nor appends to conversation_history.
C40_InterruptedResponseLeavesNoTrace ==
    [][(interrupt_event /\ \E c \in Callers : Responding(c))
          => /\ q1_queue' = q1_queue
             /\ conversation_history' = conversation_history
      ]_vars

\* ---- start() and the watcher together ----
\* the watcher's turn when its completion request yields nothing
WatcherResponseFails == Trigger("watcher") /\ gev'["watcher"] \in {"none", "end"}

\* the greeting turn of start() in full, inbound messages arriving at any time from
\* the computer agent, the watcher polling from the moment its thread is started
NextOverlap ==
    \/ StartThreads
    \/ StartGreet
    \/ StartReturn
    \/ Trigger("start")
    \/ Q2Put
    \/ Watcher
    \/ WatcherResponseFails
    \/ Render

SpecOverlap == Init /\ [][NextOverlap]_vars

\* C37: at most one _trigger_large_llm execution is in progress at any time.
C37_OneResponseAtATime ==
    Cardinality({c \in Callers : Responding(c)}) <= 1

\* C39: the final put of a _fast_decision_thread never blocks forever: the program is
\* never in a state where a thread stands at its put with the decision channel full
\* while no segment is open and no on_speech_end call is running or due, so that
\* nothing but a further utterance of the user could ever empty the channel.
C39_PutNeverStuck ==
    ~ \E s \in Segs :
         /\ fpc[s] = "finally"
         /\ Len(decision_queue) = DecisionQueueMaxSize
         /\ ~is_speaking
         /\ \A r \in Segs : epc[r] \in {"idle", "done"}
         /\ \A r \in Segs \ {s} : fpc[r] \in {"idle", "done"}

====
